---- MODULE Spec2Model ----
(***************************************************************************)
(* Open Echo sonar: the serial frame decoders and the echo pipeline of     *)
(* the Node.js programs under lab_testing/sonar-web-plotter, with the      *)
(* firmware's sendData as the producer of the byte stream.                  *)
(*                                                                         *)
(* Bytes are the integers 0..255 and the checksum is the real 8-bit XOR.   *)
(* Distances are exact decimals <<n, e>> (the value n * 10^-e); JavaScript *)
(* computes them in binary floating point, which the model replaces by     *)
(* exact arithmetic.  Array indices are JavaScript's (from 0).             *)
(***************************************************************************)
EXTENDS Integers, Sequences, FiniteSets, TLC

VARIABLES
    prog,                  \* which program is running
    segs,                  \* what the firmware and the line put on the wire, in order
    wire,                  \* the bytes on the wire not yet handed to a 'data' event
    delivered,             \* number of bytes of the wire already handed to 'data' events
    buffer,                \* the persistent receive buffer (buffer / comBuffer)
    isReading,             \* console_1800.js re-entry flag
    tracker,               \* console_1800.js SignalTracker instance
    lastSmoothedDistance,  \* EMA state, null before the first call
    clients,               \* wss.clients: readyState of every subscriber
    collectedSonarData,    \* server batch collection
    currentGpsData,        \* last location fix
    now,                   \* the clock new Date() reads, in ms
    lastDbWriteTimestamp,  \* logger: time of the last database write attempt
    dbInserts,             \* logger: the INSERT queries issued, with their state
    log,                   \* observation: one entry per frame a handler took from the buffer
    given                  \* the inputs drawn at the start by a study of one function

wireVars == <<segs, wire, delivered>>
sonarVars == <<buffer, lastSmoothedDistance, collectedSonarData, log>>
consoleVars == <<isReading, tracker>>
loggerVars == <<lastDbWriteTimestamp, dbInserts>>

vars == <<prog, given, wireVars, sonarVars, consoleVars, loggerVars, clients,
          currentGpsData, now>>

-----------------------------------------------------------------------------
(* Bounds of the model *)

\* samples per frame (the programs use 900 or 1800)
NUM_SAMPLES == 2
\* segments (frames, junk runs) the producer side puts on the wire
MaxSegs == 2

(* Program constants *)
PACKET_HEADER == 170
NUM_METADATA_BYTES == 6
SAMPLES_BYTE_SIZE == NUM_SAMPLES * 2
PACKET_SIZE == 1 + NUM_METADATA_BYTES + SAMPLES_BYTE_SIZE + 1
PAYLOAD_LEN == 6 + 2 * NUM_SAMPLES
PACKET_LEN == 1 + PAYLOAD_LEN + 1
NOISE_FLOOR_RANGE == 100
QUALITY_MIN == 50
DB_WRITE_INTERVAL_MS == 5000
WS_OPEN == 1
WS_CLOSED == 3

null == <<>>

-----------------------------------------------------------------------------
(* Exact decimals: <<n, e>> is n * 10^-e, kept normalised *)

RECURSIVE Pow10(_)
Pow10(k) == IF k <= 0 THEN 1 ELSE 10 * Pow10(k - 1)

RECURSIVE DecNorm(_)
DecNorm(d) ==
    IF d[2] > 0 /\ d[1] % 10 = 0 THEN DecNorm(<<d[1] \div 10, d[2] - 1>>) ELSE d

DecInt(i) == <<i, 0>>

MaxOf(a, b) == IF a >= b THEN a ELSE b
MinOf(a, b) == IF a <= b THEN a ELSE b

DecAdd(a, b) ==
    LET e == MaxOf(a[2], b[2])
    IN  DecNorm(<<a[1] * Pow10(e - a[2]) + b[1] * Pow10(e - b[2]), e>>)

DecSub(a, b) == DecAdd(a, <<0 - b[1], b[2]>>)

DecMul(a, b) == DecNorm(<<a[1] * b[1], a[2] + b[2]>>)

DecLeq(a, b) ==
    LET e == MaxOf(a[2], b[2])
    IN  a[1] * Pow10(e - a[2]) <= b[1] * Pow10(e - b[2])

\* Math.round: the nearest integer, a tie going up
MathRound(d) == (2 * d[1] + Pow10(d[2])) \div (2 * Pow10(d[2]))

SAMPLE_RESOLUTION == <<2178, 4>>
EMA_ALPHA == <<1, 1>>

-----------------------------------------------------------------------------
(* Bytes *)

RECURSIVE BitXor(_, _)
BitXor(a, b) ==
    IF a = 0 THEN b
    ELSE IF b = 0 THEN a
    ELSE ((a + b) % 2) + 2 * BitXor(a \div 2, b \div 2)

\* calculatedChecksum ^= byte, over the payload
RECURSIVE XorAll(_)
XorAll(bytes) ==
    IF bytes = <<>> THEN 0 ELSE BitXor(bytes[1], XorAll(Tail(bytes)))

HighByte(v) == (v % 65536) \div 256
LowByte(v) == v % 256

\* Buffer.slice / subarray(from): the bytes from JavaScript index `from` on
SliceFrom(buf, from) ==
    IF from >= Len(buf) THEN <<>> ELSE SubSeq(buf, from + 1, Len(buf))

\* Buffer.slice / subarray(from, to)
Slice(buf, from, to) ==
    IF from >= MinOf(to, Len(buf)) THEN <<>> ELSE SubSeq(buf, from + 1, MinOf(to, Len(buf)))

\* Buffer.indexOf(byte): the first JavaScript index holding the byte, or -1
RECURSIVE IndexOfFrom(_, _, _)
IndexOfFrom(buf, byte, i) ==
    IF i >= Len(buf) THEN -1
    ELSE IF buf[i + 1] = byte THEN i
    ELSE IndexOfFrom(buf, byte, i + 1)

IndexOf(buf, byte) == IndexOfFrom(buf, byte, 0)

\* payload.readUInt16BE(off)
ReadUInt16BE(buf, off) == buf[off + 1] * 256 + buf[off + 2]

\* the two bytes read without the sign
ReadInt16BEUnsigned(buf, off) == ReadUInt16BE(buf, off)

\* payload.readInt16BE(off)
ReadInt16BE(buf, off) ==
    LET u == ReadUInt16BE(buf, off) IN IF u >= 32768 THEN u - 65536 ELSE u

\* the loop reading NUM_SAMPLES big-endian 16-bit samples from offset off
ReadSamples(buf, off) ==
    [i \in 1..NUM_SAMPLES |-> ReadUInt16BE(buf, off + 2 * (i - 1))]

-----------------------------------------------------------------------------
(* Firmware: the frame sendData writes (16-bit samples) *)

RECURSIVE SampleBytes(_)
SampleBytes(values) ==
    IF values = <<>> THEN <<>>
    ELSE <<HighByte(values[1]), LowByte(values[1])>> \o SampleBytes(Tail(values))

sendData(depthDetectSample, temp_scaled, vDrv_scaled, analogValues) ==
    LET body == <<HighByte(depthDetectSample), LowByte(depthDetectSample),
                  HighByte(temp_scaled), LowByte(temp_scaled),
                  HighByte(vDrv_scaled), LowByte(vDrv_scaled)>>
                \o SampleBytes(analogValues)
    IN  <<PACKET_HEADER>> \o body \o <<XorAll(body)>>

-----------------------------------------------------------------------------
(* Echo extractor *)

RECURSIVE SumSeq(_)
SumSeq(s) ==
    IF s = <<>> THEN 0
    ELSE IF Len(s) = 1 THEN s[1]
    ELSE LET half == Len(s) \div 2
         IN  SumSeq(SubSeq(s, 1, half)) + SumSeq(SubSeq(s, half + 1, Len(s)))

calculateNoiseFloor(samples) ==
    LET start == Len(samples) - NOISE_FLOOR_RANGE
    IN  IF start < 0 THEN DecInt(0)
        ELSE DecNorm(<<SumSeq(SliceFrom(samples, start)), 2>>)

RECURSIVE BlindScan(_, _, _, _)
BlindScan(samples, threshold, i, limit) ==
    IF i >= limit THEN 150
    ELSE IF DecLeq(DecInt(samples[i + 1]), threshold) THEN i
    ELSE BlindScan(samples, threshold, i + 1, limit)

\* the threshold taken as the noise floor itself, without the 1.2 margin
findBlindZoneEndNoMargin(samples, noiseFloor) ==
    BlindScan(samples, noiseFloor, 0, MinOf(Len(samples), 500))

findBlindZoneEnd(samples, noiseFloor) ==
    LET searchLimit == 500
        threshold == DecMul(noiseFloor, <<12, 1>>)
    IN  BlindScan(samples, threshold, 0, MinOf(Len(samples), searchLimit))

\* the loop body with >= in place of >
MaxStepNotStrict(samples, i, m) ==
    IF samples[i + 1] >= m[1] THEN <<samples[i + 1], i>> ELSE m

\* the loop body keeping the first sample above zero
MaxStepFirstAboveZero(samples, i, m) ==
    IF samples[i + 1] > m[1] /\ m[2] = -1 THEN <<samples[i + 1], i>> ELSE m

\* the loop body noting the index after the sample's
MaxStepNextIndex(samples, i, m) ==
    IF samples[i + 1] > m[1] THEN <<samples[i + 1], i + 1>> ELSE m

\* the body of the forward scan, with the strict > comparison; m is
\* <<maxValue, maxIndex>>
MaxStep(samples, i, m) ==
    IF samples[i + 1] > m[1] THEN <<samples[i + 1], i>> ELSE m

\* the iterations i .. j-1 of the scan, in order: the first half of them,
\* then the second half started from the maximum the first half leaves
RECURSIVE MaxScanRange(_, _, _, _)
MaxScanRange(samples, i, j, m) ==
    IF i >= j THEN m
    ELSE IF j = i + 1 THEN MaxStep(samples, i, m)
    ELSE LET mid == (i + j) \div 2
             firstHalf == MaxScanRange(samples, i, mid, m)
         IN  IF firstHalf = m THEN MaxScanRange(samples, mid, j, m)
             ELSE MaxScanRange(samples, mid, j, firstHalf)

\* the scan started at index 0, whatever the blind zone
MaxScanWholeArray(samples, i, m) == MaxScanRange(samples, 0, Len(samples), m)

\* for (let i = startIndex; i < samples.length; i++)
MaxScan(samples, i, m) == MaxScanRange(samples, i, Len(samples), m)

findPrimaryReflection(samples) ==
    IF Len(samples) = 0
    THEN [value |-> 0, index |-> -1, distance |-> DecInt(0), blindZoneEndIndex |-> 0]
    ELSE LET noiseFloor == calculateNoiseFloor(samples)
             startIndex == findBlindZoneEnd(samples, noiseFloor)
             m == MaxScan(samples, startIndex, <<0, -1>>)
         IN  [value |-> m[1], index |-> m[2],
              distance |-> DecMul(DecInt(m[2]), SAMPLE_RESOLUTION),
              blindZoneEndIndex |-> startIndex]

-----------------------------------------------------------------------------
(* Distance smoother: <<new lastSmoothedDistance, returned value>> *)

\* the two weights exchanged
applyExponentialSmoothingSwapped(last, currentDistance) ==
    IF last = null
    THEN <<currentDistance, currentDistance>>
    ELSE LET smoothedDistance ==
                 DecAdd(DecMul(DecSub(DecInt(1), EMA_ALPHA), currentDistance),
                        DecMul(EMA_ALPHA, last))
         IN  <<smoothedDistance, smoothedDistance>>

\* the blend returned without being stored
applyExponentialSmoothingKeepsFirst(last, currentDistance) ==
    IF last = null
    THEN <<currentDistance, currentDistance>>
    ELSE LET smoothedDistance ==
                 DecAdd(DecMul(EMA_ALPHA, currentDistance),
                        DecMul(DecSub(DecInt(1), EMA_ALPHA), last))
         IN  <<last, smoothedDistance>>

applyExponentialSmoothing(last, currentDistance) ==
    IF last = null
    THEN <<currentDistance, currentDistance>>
    ELSE LET smoothedDistance ==
                 DecAdd(DecMul(EMA_ALPHA, currentDistance),
                        DecMul(DecSub(DecInt(1), EMA_ALPHA), last))
         IN  <<smoothedDistance, smoothedDistance>>

-----------------------------------------------------------------------------
(* What a handler did with one frame taken from the buffer.  at is the    *)
(* offset in the byte stream of the frame's header byte.                   *)

\* whether the XOR over metadata and samples equals the trailing checksum byte
ChecksumOk(packet) ==
    XorAll(Slice(packet, 1, Len(packet) - 1)) = packet[Len(packet)]

\* the forEach sending to every client, whatever its readyState
EveryClient(cl) == DOMAIN cl

OpenClients(cl) == {c \in DOMAIN cl : cl[c] = WS_OPEN}

getGpsCoordinates(gps) ==
    IF ~gps.initialized THEN [lat |-> null, lon |-> null]
    ELSE [lat |-> gps.lat, lon |-> gps.lon]

\* Buffer.writeUInt16BE throws a RangeError outside 0..65535
Uint16Range(v) == v >= 0 /\ v <= 65535

\* st with the buffer length noted in lens, the lengths the buffer had each
\* time a decode loop iteration or an extractAndProcessPacket call began
Entered(st) == [st EXCEPT !.lens = Append(@, Len(st.buffer))]

\* the junk sliced off together with the header found
DiscardJunkAndHeader(buf, headerIndex) == SliceFrom(buf, headerIndex + 1)

\* buffer = buffer.slice(headerIndex): the junk bytes before the header
DiscardJunk(buf, headerIndex) == SliceFrom(buf, headerIndex)

\* the slice leaving the frame's checksum byte in the buffer
TakeFrameKeepsChecksum(buf) == SliceFrom(buf, PACKET_SIZE - 1)

\* the slice taken twice for one frame
TakeFrameTwice(buf) == SliceFrom(buf, 2 * PACKET_SIZE)

\* buffer = buffer.slice(PACKET_SIZE), once per frame on every path
TakeFrame(buf) == SliceFrom(buf, PACKET_SIZE)

\* before and after are lastSmoothedDistance around the frame's processing
Entry(at, packet, samples, reflection, before, after, outcome, sentTo, payload) ==
    [at |-> at, packet |-> packet, samples |-> samples,
     checksumOk |-> ChecksumOk(packet),
     value |-> reflection.value, index |-> reflection.index,
     before |-> before, after |-> after,
     outcome |-> outcome, sentTo |-> sentTo, payload |-> payload]

-----------------------------------------------------------------------------
(* server-gps-d3-serial.js: the body of one iteration of the while loop,   *)
(* from the packet slice on.  st is the handler's view of the program      *)
(* state; pos is the stream offset of st.buffer's first byte.              *)

ServerFrame(st) ==
    LET packet == Slice(st.buffer, 0, PACKET_SIZE)
        payload == Slice(packet, 1, PACKET_SIZE - 1)
        samplesBuffer == SliceFrom(payload, 6)
        rawSamples == ReadSamples(samplesBuffer, 0)
        reflection == findPrimaryReflection(rawSamples)
        sm == applyExponentialSmoothing(st.last, reflection.distance)
        smoothedDistance == sm[2]
        distMM == MathRound(DecMul(smoothedDistance, DecInt(10)))
        peakVal == MinOf(reflection.value, 255)
        rest == TakeFrame(st.buffer)
        E(outcome, sentTo, payload_) ==
            Entry(st.pos, packet, rawSamples, reflection, st.last, sm[1],
                  outcome, sentTo, payload_)
    IN  IF Len(samplesBuffer) # NUM_SAMPLES * 2
        THEN \* throw new Error(...), caught; the trailing slice
             [st EXCEPT !.buffer = rest, !.pos = @ + PACKET_SIZE,
                        !.log = Append(@, Entry(st.pos, packet, <<>>,
                                    [value |-> 0, index |-> -1], st.last, st.last,
                                    "threw", {}, <<>>))]
        ELSE IF reflection.value < QUALITY_MIN
        THEN \* slice and continue
             [st EXCEPT !.buffer = rest, !.pos = @ + PACKET_SIZE, !.last = sm[1],
                        !.log = Append(@, E("skipped", {}, <<>>))]
        ELSE IF ~Uint16Range(distMM)
        THEN \* writeUInt16BE throws, caught; the trailing slice
             [st EXCEPT !.buffer = rest, !.pos = @ + PACKET_SIZE, !.last = sm[1],
                        !.log = Append(@, E("threw", {}, <<>>))]
        ELSE [st EXCEPT !.buffer = rest, !.pos = @ + PACKET_SIZE, !.last = sm[1],
                        !.collected = Append(@, [timestamp |-> st.now,
                                                 reflection |-> reflection,
                                                 smoothedDistance |-> smoothedDistance,
                                                 gps |-> getGpsCoordinates(st.gps),
                                                 \* the log entry of its frame
                                                 entry |-> Len(st.log) + 1]),
                        !.log = Append(@, E("sent", OpenClients(st.clients),
                                            <<distMM, peakVal>>))]

RECURSIVE ServerLoop(_)
\* the loop entered only with more than PACKET_SIZE bytes in the buffer
ServerLoopAbovePacketSize(st) ==
    IF Len(st.buffer) <= PACKET_SIZE THEN st
    ELSE LET headerIndex == IndexOf(st.buffer, PACKET_HEADER)
         IN  IF headerIndex = -1
             THEN [st EXCEPT !.buffer = <<>>, !.pos = @ + Len(st.buffer)]
             ELSE LET st1 == IF headerIndex > 0
                             THEN [st EXCEPT !.buffer = SliceFrom(@, headerIndex),
                                             !.pos = @ + headerIndex]
                             ELSE st
                  IN  IF headerIndex > 0 /\ Len(st1.buffer) < PACKET_SIZE
                      THEN st1
                      ELSE ServerLoop(ServerFrame(st1))

ServerLoop(st) ==
    IF Len(st.buffer) < PACKET_SIZE THEN st
    ELSE LET headerIndex == IndexOf(st.buffer, PACKET_HEADER)
         IN  IF headerIndex = -1
             THEN [st EXCEPT !.buffer = <<>>, !.pos = @ + Len(st.buffer)]
             ELSE LET st1 == IF headerIndex > 0
                             THEN [st EXCEPT !.buffer = SliceFrom(@, headerIndex),
                                             !.pos = @ + headerIndex]
                             ELSE st
                  IN  IF headerIndex > 0 /\ Len(st1.buffer) < PACKET_SIZE
                      THEN st1
                      ELSE ServerLoop(ServerFrame(st1))

-----------------------------------------------------------------------------
(* unnamed/part_000 sonarPacketHandler: one iteration from the packet      *)
(* slice on.  The checksum is computed and a mismatch only warned about.   *)

HandlerFrame(st) ==
    LET packet == Slice(st.buffer, 0, PACKET_SIZE)
        payload == Slice(packet, 1, PACKET_SIZE - 1)
        samplesBuffer == SliceFrom(payload, 6)
        rawSamples == ReadSamples(samplesBuffer, 0)
        reflection == findPrimaryReflection(rawSamples)
        sm == applyExponentialSmoothing(st.last, reflection.distance)
        smoothedDistance == sm[2]
        distMM == MathRound(DecMul(smoothedDistance, DecInt(10)))
        peakVal == MinOf(reflection.value, 255)
        peakIdx == reflection.index
        rest == TakeFrame(st.buffer)
        E(outcome, sentTo, payload_) ==
            Entry(st.pos, packet, rawSamples, reflection, st.last, sm[1],
                  outcome, sentTo, payload_)
    IN  IF Len(samplesBuffer) # NUM_SAMPLES * 2
        THEN [st EXCEPT !.buffer = rest, !.pos = @ + PACKET_SIZE,
                        !.log = Append(@, Entry(st.pos, packet, <<>>,
                                    [value |-> 0, index |-> -1], st.last, st.last,
                                    "threw", {}, <<>>))]
        ELSE IF ~Uint16Range(distMM) \/ ~Uint16Range(peakIdx)
        THEN \* a writeUInt16BE throws, caught; the trailing slice
             [st EXCEPT !.buffer = rest, !.pos = @ + PACKET_SIZE, !.last = sm[1],
                        !.log = Append(@, E("threw", {}, <<>>))]
        ELSE IF reflection.value < QUALITY_MIN
        THEN \* slice and continue
             [st EXCEPT !.buffer = rest, !.pos = @ + PACKET_SIZE, !.last = sm[1],
                        !.log = Append(@, E("skipped", {}, <<>>))]
        ELSE [st EXCEPT !.buffer = rest, !.pos = @ + PACKET_SIZE, !.last = sm[1],
                        !.log = Append(@, E("sent", OpenClients(st.clients),
                                            <<distMM, peakVal, peakIdx>>))]

RECURSIVE HandlerLoop(_)
HandlerLoop(st) ==
    IF Len(st.buffer) < PACKET_SIZE THEN st
    ELSE LET headerIndex == IndexOf(st.buffer, PACKET_HEADER)
         IN  IF headerIndex = -1
             THEN [st EXCEPT !.buffer = <<>>, !.pos = @ + Len(st.buffer)]
             ELSE LET st1 == IF headerIndex > 0
                             THEN [st EXCEPT !.buffer = DiscardJunk(@, headerIndex),
                                             !.pos = @ + headerIndex]
                             ELSE st
                  IN  IF headerIndex > 0 /\ Len(st1.buffer) < PACKET_SIZE
                      THEN st1
                      ELSE HandlerLoop(HandlerFrame(st1))

-----------------------------------------------------------------------------
(* sonar_gps_data_logger_throttled_writes.js: one iteration of              *)
(* serialBufferHandler from the packet slice on, with the part of           *)
(* processDataPacket that runs before its first await.                      *)

\* the throttle comparing twice the elapsed time with the interval
ThrottledWithinHalfInterval(currentTime, lastDb) ==
    2 * (currentTime - lastDb) < DB_WRITE_INTERVAL_MS

\* if (currentTime - lastDbWriteTimestamp < DB_WRITE_INTERVAL_MS)
Throttled(currentTime, lastDb) == currentTime - lastDb < DB_WRITE_INTERVAL_MS

\* the timer left as it was when the write is skipped for lack of a fix
TimerWithoutFixKept(currentTime, lastDb) == lastDb

\* lastDbWriteTimestamp = currentTime, assigned before the fix is looked at
TimerWithoutFix(currentTime, lastDb) == currentTime

LoggerFrame(st) ==
    LET packet == Slice(st.buffer, 0, PACKET_SIZE)
        payload == Slice(packet, 1, PACKET_SIZE - 1)
        samplesBuffer == SliceFrom(payload, NUM_METADATA_BYTES)
        rawSamples == ReadSamples(samplesBuffer, 0)
        \* processDataPacket(rawSamples)
        timestamp == st.now
        reflection == findPrimaryReflection(rawSamples)
        sm == applyExponentialSmoothing(st.last, reflection.distance)
        smoothedDistance == sm[2]
        currentTime == timestamp
        gps == getGpsCoordinates(st.gps)
        rest == TakeFrame(st.buffer)
        E(outcome) ==
            Entry(st.pos, packet, rawSamples, reflection, st.last, sm[1],
                  outcome, {}, <<>>)
        st1 == [st EXCEPT !.buffer = rest, !.pos = @ + PACKET_SIZE, !.last = sm[1]]
    IN  IF reflection.value < QUALITY_MIN
        THEN [st1 EXCEPT !.log = Append(@, E("skipped"))]
        ELSE IF Throttled(currentTime, st.lastDb)
        THEN [st1 EXCEPT !.log = Append(@, E("throttled"))]
        ELSE IF gps.lat = null \/ gps.lon = null
        THEN [st1 EXCEPT !.lastDb = TimerWithoutFix(currentTime, st.lastDb),
                         !.log = Append(@, E("nogps"))]
        ELSE [st1 EXCEPT !.lastDb = currentTime,
                         !.inserts = Append(@, [timestamp |-> timestamp,
                                                lat |-> gps.lat, lon |-> gps.lon,
                                                value |-> reflection.value,
                                                index |-> reflection.index,
                                                distance |-> smoothedDistance,
                                                state |-> "pending"]),
                         !.log = Append(@, E("insert"))]

RECURSIVE LoggerLoop(_)
\* the loop emptying the buffer when the bytes from the header on are too few
LoggerLoopDropShort(st) ==
    IF Len(st.buffer) < PACKET_SIZE THEN st
    ELSE LET headerIndex == IndexOf(st.buffer, PACKET_HEADER)
         IN  IF headerIndex = -1
             THEN [st EXCEPT !.buffer = <<>>, !.pos = @ + Len(st.buffer)]
             ELSE LET st1 == IF headerIndex > 0
                             THEN [st EXCEPT !.buffer = SliceFrom(@, headerIndex),
                                             !.pos = @ + headerIndex]
                             ELSE st
                  IN  IF headerIndex > 0 /\ Len(st1.buffer) < PACKET_SIZE
                      THEN [st EXCEPT !.buffer = <<>>, !.pos = @ + Len(st.buffer)]
                      ELSE LoggerLoop(LoggerFrame(st1))

\* the body of the while loop
LoggerIteration(st) ==
    LET headerIndex == IndexOf(st.buffer, PACKET_HEADER)
    IN  IF headerIndex = -1
        THEN [st EXCEPT !.buffer = <<>>, !.pos = @ + Len(st.buffer)]
        ELSE LET st1 == IF headerIndex > 0
                        THEN [st EXCEPT !.buffer = DiscardJunk(@, headerIndex),
                                        !.pos = @ + headerIndex]
                        ELSE st
             IN  IF headerIndex > 0 /\ Len(st1.buffer) < PACKET_SIZE
                 THEN st1
                 ELSE LoggerLoop(LoggerFrame(st1))

\* while (comBuffer.length >= PACKET_SIZE)
LoggerLoop(st) ==
    IF Len(st.buffer) < PACKET_SIZE THEN st
    ELSE LoggerIteration(Entered(st))

-----------------------------------------------------------------------------
(* console_1800.js *)

THRESHOLD == 60
CONSISTENCY_SAMPLES == 3
POSITION_TOLERANCE == 5

\* the indices i with currentValues[i] >= threshold, in increasing order
RECURSIVE PeakIndices(_, _, _)
PeakIndices(currentValues, threshold, i) ==
    IF i >= Len(currentValues) THEN <<>>
    ELSE (IF currentValues[i + 1] >= threshold THEN <<i>> ELSE <<>>)
         \o PeakIndices(currentValues, threshold, i + 1)

\* this.buffer.push(currentPeakIndices) with the newest list shifted out
PushPeaksShiftNewest(peakLists, currentPeakIndices, bufferSize) ==
    LET pushed == Append(peakLists, currentPeakIndices)
    IN  IF Len(pushed) > bufferSize THEN SubSeq(pushed, 1, Len(pushed) - 1) ELSE pushed

\* this.buffer.push(currentPeakIndices), then shift() when over bufferSize
PushPeaks(peakLists, currentPeakIndices, bufferSize) ==
    LET pushed == Append(peakLists, currentPeakIndices)
    IN  IF Len(pushed) > bufferSize THEN Tail(pushed) ELSE pushed

\* the match test asking for the same index
IsMatchSameIndex(index, pastPeakIndices, numSamples) ==
    \E k \in 1..Len(pastPeakIndices) : pastPeakIndices[k] = index

\* the inner loop: some past peak lies within the tolerance of index;
\* numSamples is the program's NUM_SAMPLES
IsMatch(index, pastPeakIndices, numSamples) ==
    LET minIdx == MaxOf(0, index - POSITION_TOLERANCE)
        maxIdx == MinOf(numSamples - 1, index + POSITION_TOLERANCE)
    IN  \E k \in 1..Len(pastPeakIndices) :
            pastPeakIndices[k] >= minIdx /\ pastPeakIndices[k] <= maxIdx

\* the consistency loop satisfied by a match in one previous list
IsConsistentInSome(index, buf, numSamples) ==
    \E i \in 1..(Len(buf) - 1) : IsMatch(index, buf[i], numSamples)

\* the consistency loop passing over every previous list
IsConsistentSkippingPast(index, buf, numSamples) ==
    \A i \in Len(buf)..(Len(buf) - 1) : IsMatch(index, buf[i], numSamples)

\* the loop over ALL previous peak lists, ended by the first without a match
IsConsistent(index, buf, numSamples) ==
    \A i \in 1..(Len(buf) - 1) : IsMatch(index, buf[i], numSamples)

\* the analysis run on a buffer one entry short of full
AnalysisSkippedOneEarly(buf, bufferSize) == Len(buf) < bufferSize - 1

\* if (this.buffer.length < this.bufferSize): the analysis is skipped
AnalysisSkipped(buf, bufferSize) == Len(buf) < bufferSize

\* SignalTracker.updateAndGetConsistentIndices in a program whose
\* NUM_SAMPLES is numSamples: the tracker after the update; its
\* consistentIndices is the value returned
updateAndGetConsistentIndicesOf(tr, currentValues, numSamples) ==
    LET currentPeakIndices == PeakIndices(currentValues, THRESHOLD, 0)
        buf == PushPeaks(tr.buffer, currentPeakIndices, CONSISTENCY_SAMPLES)
        latest == buf[Len(buf)]
    IN  IF AnalysisSkipped(buf, CONSISTENCY_SAMPLES)
        THEN [buffer |-> buf, consistentIndices |-> {}]
        ELSE [buffer |-> buf,
              consistentIndices |->
                  {latest[k] : k \in {k \in 1..Len(latest) :
                                        IsConsistent(latest[k], buf, numSamples)}}]

updateAndGetConsistentIndices(tr, currentValues) ==
    updateAndGetConsistentIndicesOf(tr, currentValues, NUM_SAMPLES)

\* (x).toFixed(1) read back by parseFloat: one decimal, a tie away from zero
ToFixed1(d) ==
    IF d[2] <= 1 THEN d
    ELSE LET scale == Pow10(d[2] - 1)
             mag == IF d[1] < 0 THEN 0 - d[1] ELSE d[1]
             q == (2 * mag + scale) \div (2 * scale)
         IN  DecNorm(<<IF d[1] < 0 THEN 0 - q ELSE q, 1>>)

\* the header search: the first i <= buffer.length - PACKET_LEN holding 0xAA
RECURSIVE FindHeader(_, _)
\* the header search passing over the byte it starts at
FindHeaderFromSecond(buf, i) ==
    IF i + 1 > Len(buf) - PACKET_LEN THEN -1
    ELSE IF buf[i + 2] = PACKET_HEADER THEN i + 1
    ELSE FindHeader(buf, i + 1)

FindHeader(buf, i) ==
    IF i > Len(buf) - PACKET_LEN THEN -1
    ELSE IF buf[i + 1] = PACKET_HEADER THEN i
    ELSE FindHeader(buf, i + 1)

\* the XOR loop started at the payload's second byte
CalculatedChecksumFromSecond(payload) == XorAll(Tail(payload))

\* the XOR loop over the payload
CalculatedChecksum(payload) == XorAll(payload)

\* the bad header discarded together with the byte that follows it
DiscardBadHeaderAndNext(st, headerIndex) ==
    [st EXCEPT !.buffer = SliceFrom(@, headerIndex + 2), !.pos = @ + headerIndex + 2]

\* the retry made once on the unchanged buffer before the header is discarded
DiscardBadHeaderOnSecondTry(st, headerIndex) ==
    IF Len(st.lens) >= 2 /\ st.lens[Len(st.lens)] = st.lens[Len(st.lens) - 1]
    THEN [st EXCEPT !.buffer = SliceFrom(@, headerIndex + 1), !.pos = @ + headerIndex + 1]
    ELSE st

\* buffer = buffer.subarray(headerIndex + 1) on a checksum mismatch
DiscardBadHeader(st, headerIndex) ==
    [st EXCEPT !.buffer = SliceFrom(@, headerIndex + 1), !.pos = @ + headerIndex + 1]

\* st: buffer, pos (stream offset of the buffer's first byte), isReading.
\* The result adds packet (null when none) and at, the packet's stream offset.
RECURSIVE extractAndProcessPacket(_)
\* a checksum mismatch discarding the whole candidate
extractAndProcessPacketDropCandidate(st) ==
    IF st.isReading THEN [st EXCEPT !.packet = null]
    ELSE LET headerIndex == FindHeader(st.buffer, 0)
         IN  IF headerIndex = -1 \/ Len(st.buffer) < headerIndex + PACKET_LEN
             THEN [st EXCEPT !.packet = null]
             ELSE LET potentialPacket ==
                          Slice(st.buffer, headerIndex, headerIndex + PACKET_LEN)
                      payload == Slice(potentialPacket, 1, 1 + PAYLOAD_LEN)
                      receivedChecksum == potentialPacket[PACKET_LEN]
                      depthIndex == ReadUInt16BE(payload, 0)
                      tempScaled == ReadInt16BE(payload, 2)
                      vDrvScaled == ReadUInt16BE(payload, 4)
                  IN  IF CalculatedChecksum(payload) # receivedChecksum
                      THEN extractAndProcessPacket(
                               [st EXCEPT !.buffer = SliceFrom(@, headerIndex + PACKET_LEN),
                                          !.pos = @ + headerIndex + PACKET_LEN])
                      ELSE [st EXCEPT
                               !.buffer = SliceFrom(@, headerIndex + PACKET_LEN),
                               !.pos = @ + headerIndex + PACKET_LEN,
                               !.at = st.pos + headerIndex,
                               !.packet =
                                   [bytes |-> potentialPacket,
                                    depthIndex |-> depthIndex,
                                    tempScaled |-> tempScaled,
                                    vDrvScaled |-> vDrvScaled,
                                    values |-> ReadSamples(payload, 6),
                                    depthCm |-> ToFixed1(DecMul(DecInt(depthIndex),
                                                                SAMPLE_RESOLUTION)),
                                    temperature |-> ToFixed1(<<tempScaled, 2>>),
                                    driveVoltage |-> ToFixed1(<<vDrvScaled, 2>>)]]

extractAndProcessPacket(st) ==
    IF st.isReading THEN [st EXCEPT !.packet = null]
    ELSE LET headerIndex == FindHeader(st.buffer, 0)
         IN  IF headerIndex = -1 \/ Len(st.buffer) < headerIndex + PACKET_LEN
             THEN [st EXCEPT !.packet = null]
             ELSE LET potentialPacket ==
                          Slice(st.buffer, headerIndex, headerIndex + PACKET_LEN)
                      payload == Slice(potentialPacket, 1, 1 + PAYLOAD_LEN)
                      receivedChecksum == potentialPacket[PACKET_LEN]
                      depthIndex == ReadUInt16BE(payload, 0)
                      tempScaled == ReadInt16BE(payload, 2)
                      vDrvScaled == ReadUInt16BE(payload, 4)
                  IN  IF CalculatedChecksum(payload) # receivedChecksum
                      THEN extractAndProcessPacket(
                               Entered(DiscardBadHeader(st, headerIndex)))
                      ELSE [st EXCEPT
                               !.buffer = SliceFrom(@, headerIndex + PACKET_LEN),
                               !.pos = @ + headerIndex + PACKET_LEN,
                               !.at = st.pos + headerIndex,
                               !.packet =
                                   [bytes |-> potentialPacket,
                                    depthIndex |-> depthIndex,
                                    tempScaled |-> tempScaled,
                                    vDrvScaled |-> vDrvScaled,
                                    values |-> ReadSamples(payload, 6),
                                    depthCm |-> ToFixed1(DecMul(DecInt(depthIndex),
                                                                SAMPLE_RESOLUTION)),
                                    temperature |-> ToFixed1(<<tempScaled, 2>>),
                                    driveVoltage |-> ToFixed1(<<vDrvScaled, 2>>)]]

\* the while loop of port.on('data'): extract, update the tracker, print
RECURSIVE ConsoleLoop(_)
ConsoleLoop(st) ==
    LET r == extractAndProcessPacket(Entered(st))
    IN  IF r.packet = null THEN r
        ELSE LET tr == updateAndGetConsistentIndices(r.tracker, r.packet.values)
             IN  ConsoleLoop([r EXCEPT
                     !.tracker = tr,
                     !.log = Append(@, [at |-> r.at, packet |-> r.packet.bytes,
                                        samples |-> r.packet.values,
                                        parsed |-> r.packet,
                                        consistent |-> tr.consistentIndices])])

-----------------------------------------------------------------------------
(* The producer side: the firmware writes frames, the line adds junk *)

\* sample values the test signals use: silence, a weak echo, a strong echo
PeakVals == {0, 10, 170}

\* a sweep that is silent but for one echo of value v at index p
Echo(p, v) == [i \in 1..NUM_SAMPLES |-> IF i = p + 1 THEN v ELSE 0]

SampleArrays == {Echo(NUM_SAMPLES - 1, v) : v \in PeakVals}

\* line noise <<b, n>>, n bytes b: a zero, a stray header byte, and a run of
\* zeros as long as a frame (a frame's worth of bytes with no header in it)
JunkRuns == {<<0, 1>>, <<170, 1>>, <<0, PACKET_SIZE + 1>>}

Clients == {"a", "b"}

StartTime == 1000 * DB_WRITE_INTERVAL_MS

RECURSIVE Flatten(_)
Flatten(ss) == IF ss = <<>> THEN <<>> ELSE ss[1].bytes \o Flatten(Tail(ss))

\* every byte put on the wire so far
Stream == Flatten(segs)

\* the firmware's loop calls sendData once per sweep
SendFrame(values) ==
    /\ Len(segs) < MaxSegs
    /\ segs' = Append(segs, [kind |-> "frame", bytes |-> sendData(0, 0, 0, values)])
    /\ wire' = wire \o sendData(0, 0, 0, values)
    /\ UNCHANGED <<prog, given, delivered, sonarVars, consoleVars, loggerVars, clients,
                   currentGpsData, now>>

\* line noise: n junk bytes b between frames
Junk(b, n) ==
    /\ Len(segs) < MaxSegs
    /\ segs' = Append(segs, [kind |-> "junk", bytes |-> [i \in 1..n |-> b]])
    /\ wire' = wire \o [i \in 1..n |-> b]
    /\ UNCHANGED <<prog, given, delivered, sonarVars, consoleVars, loggerVars, clients,
                   currentGpsData, now>>

\* a subscriber connects or goes away
ClientChange(c, s) ==
    /\ prog \in {"server", "handler"}
    /\ clients[c] # s
    /\ clients' = [clients EXCEPT ![c] = s]
    /\ UNCHANGED <<prog, given, wireVars, sonarVars, consoleVars, loggerVars,
                   currentGpsData, now>>

\* the next n undelivered bytes: the chunk of one 'data' event
Chunk(n) == SubSeq(wire, 1, n)

\* the program state a 'data' handler works on, the chunk appended to the buffer
View(data) ==
    [buffer |-> buffer \o data, pos |-> delivered - Len(buffer),
     last |-> lastSmoothedDistance, clients |-> clients,
     collected |-> collectedSonarData, gps |-> currentGpsData,
     now |-> now, lastDb |-> lastDbWriteTimestamp, inserts |-> dbInserts,
     log |-> log, lens |-> <<>>]

Commit(st, n) ==
    /\ wire' = SliceFrom(wire, n)
    /\ delivered' = delivered + n
    /\ buffer' = st.buffer
    /\ lastSmoothedDistance' = st.last
    /\ collectedSonarData' = st.collected
    /\ lastDbWriteTimestamp' = st.lastDb
    /\ dbInserts' = st.inserts
    /\ log' = st.log
    /\ UNCHANGED <<prog, given, segs, consoleVars, clients, currentGpsData, now>>

\* server-gps-d3-serial.js port.on('data')
ServerData(n) ==
    /\ prog = "server"
    /\ LET st == ServerLoop(View(Chunk(n))) IN Commit(st, n)

\* part_000 port.on('data') of sonarPacketHandler
HandlerData(n) ==
    /\ prog = "handler"
    /\ LET st == HandlerLoop(View(Chunk(n))) IN Commit(st, n)

\* sonar_gps_data_logger_throttled_writes.js serialBufferHandler
serialBufferHandler(n) ==
    /\ prog = "logger"
    /\ LET st == LoggerLoop(View(Chunk(n))) IN Commit(st, n)

InitCommon ==
    /\ segs = <<>>
    /\ wire = <<>>
    /\ delivered = 0
    /\ buffer = <<>>
    /\ isReading = FALSE
    /\ tracker = [buffer |-> <<>>, consistentIndices |-> {}]
    /\ lastSmoothedDistance = null
    /\ clients = [c \in Clients |-> WS_OPEN]
    /\ collectedSonarData = <<>>
    /\ currentGpsData = [lat |-> null, lon |-> null, initialized |-> FALSE]
    /\ now = StartTime
    /\ lastDbWriteTimestamp = 0
    /\ dbInserts = <<>>
    /\ log = <<>>
    /\ given = <<>>

\* console_1800.js port.on('data')
ConsoleData(n) ==
    /\ prog = "console"
    /\ LET st == ConsoleLoop([buffer |-> buffer \o Chunk(n),
                              pos |-> delivered - Len(buffer),
                              isReading |-> isReading, tracker |-> tracker,
                              log |-> log, packet |-> null, at |-> 0, lens |-> <<>>])
       IN  /\ wire' = SliceFrom(wire, n)
           /\ delivered' = delivered + n
           /\ buffer' = st.buffer
           /\ isReading' = st.isReading
           /\ tracker' = st.tracker
           /\ log' = st.log
    /\ UNCHANGED <<prog, given, segs, lastSmoothedDistance, collectedSonarData, loggerVars,
                   clients, currentGpsData, now>>

(* The three programs that take frames without a checksum test, each on    *)
(* the serial traffic alone.                                               *)
Init ==
    /\ prog \in {"server", "handler", "logger"}
    /\ InitCommon

Next ==
    \/ \E values \in SampleArrays : SendFrame(values)
    \/ \E j \in JunkRuns : Junk(j[1], j[2])
    \/ \E c \in Clients, s \in {WS_OPEN, WS_CLOSED} : ClientChange(c, s)
    \/ \E n \in 1..Len(wire) : ServerData(n)
    \/ \E n \in 1..Len(wire) : HandlerData(n)
    \/ \E n \in 1..Len(wire) : serialBufferHandler(n)

Spec == Init /\ [][Next]_vars

(* console_1800.js on the serial traffic *)
InitConsole ==
    /\ prog = "console"
    /\ InitCommon

NextConsole ==
    \/ \E values \in SampleArrays : SendFrame(values)
    \/ \E j \in JunkRuns : Junk(j[1], j[2])
    \/ \E n \in 1..Len(wire) : ConsoleData(n)

SpecConsole == InitConsole /\ [][NextConsole]_vars

(* extractAndProcessPacket on one frame with one bit of its metadata or    *)
(* sample bytes flipped in transit                                         *)
RECURSIVE Pow2(_)
Pow2(k) == IF k <= 0 THEN 1 ELSE 2 * Pow2(k - 1)

\* metadata as <<depthDetectSample, temp_scaled, vDrv_scaled>>
Metas == {<<0, 0, 0>>, <<300, -5, 1234>>}

\* frame with bit b of the byte at offset p inverted
FlipBit(frame, p, b) == [frame EXCEPT ![p + 1] = BitXor(@, Pow2(b))]

InitFlip ==
    /\ prog = "console"
    /\ \E m \in Metas, values \in SampleArrays, p \in 1..PAYLOAD_LEN, b \in 0..7 :
           LET frame == sendData(m[1], m[2], m[3], values)
           IN  /\ segs = <<[kind |-> "flipped", bytes |-> FlipBit(frame, p, b),
                            sent |-> frame, at |-> p, bit |-> b]>>
               /\ wire = FlipBit(frame, p, b)
    /\ delivered = 0
    /\ buffer = <<>>
    /\ isReading = FALSE
    /\ tracker = [buffer |-> <<>>, consistentIndices |-> {}]
    /\ lastSmoothedDistance = null
    /\ clients = [c \in Clients |-> WS_OPEN]
    /\ collectedSonarData = <<>>
    /\ currentGpsData = [lat |-> null, lon |-> null, initialized |-> FALSE]
    /\ now = StartTime
    /\ lastDbWriteTimestamp = 0
    /\ dbInserts = <<>>
    /\ log = <<>>
    /\ given = <<>>

NextFlip == \E n \in 1..Len(wire) : ConsoleData(n)

SpecFlip == InitFlip /\ [][NextFlip]_vars

(* applyExponentialSmoothing called as the handlers call it, with the      *)
(* distance of a reflection index                                          *)
MaxCalls == 3

RawIndices == {-1, 0, 1, 7, 150}

Smooth(index) ==
    /\ prog = "smoother"
    /\ Len(log) < MaxCalls
    /\ LET currentDistance == DecMul(DecInt(index), SAMPLE_RESOLUTION)
           sm == applyExponentialSmoothing(lastSmoothedDistance, currentDistance)
       IN  /\ lastSmoothedDistance' = sm[1]
           /\ log' = Append(log, [arg |-> currentDistance,
                                  before |-> lastSmoothedDistance,
                                  returned |-> sm[2], after |-> sm[1]])
    /\ UNCHANGED <<prog, given, wireVars, buffer, collectedSonarData, consoleVars,
                   loggerVars, clients, currentGpsData, now>>

InitSmooth ==
    /\ prog = "smoother"
    /\ InitCommon

NextSmooth == \E index \in RawIndices : Smooth(index)

SpecSmooth == InitSmooth /\ [][NextSmooth]_vars

-----------------------------------------------------------------------------
(* Observations shared by the properties *)

\* the bytes handed to the 'data' handler so far
Delivered == SubSeq(Stream, 1, delivered)

\* stream offset of segment k's first byte
RECURSIVE SegOffset(_)
SegOffset(k) == IF k <= 1 THEN 0 ELSE SegOffset(k - 1) + Len(segs[k - 1].bytes)

\* the program as constructed, with data as the only chunk it ever received
Fresh(data) ==
    [buffer |-> data, pos |-> 0, last |-> null, clients |-> clients,
     collected |-> <<>>, gps |-> currentGpsData, now |-> now, lastDb |-> 0,
     inserts |-> <<>>, log |-> <<>>, lens |-> <<>>]

RunLoop(st) ==
    CASE prog = "server" -> ServerLoop(st)
      [] prog = "handler" -> HandlerLoop(st)
      [] OTHER -> LoggerLoop(st)

\* the outcome of feeding everything delivered so far as one chunk
OneChunk == RunLoop(Fresh(Delivered))

Frames(l) == [i \in 1..Len(l) |-> l[i].samples]

\* a buffer from its first header byte on, empty when it holds none
FromHeader(buf) ==
    LET h == IndexOf(buf, PACKET_HEADER)
    IN  IF h = -1 THEN <<>> ELSE SliceFrom(buf, h)

-----------------------------------------------------------------------------
(* Properties of the server, part_000 and logger 'data' handlers (Spec) *)

\* C2: every candidate frame whose samples reached findPrimaryReflection,
\* the smoother or a subscriber had a checksum byte equal to the XOR of its
\* metadata and sample bytes.
C2_ChecksumVerifiedBeforeUse ==
    \A i \in 1..Len(log) : log[i].checksumOk

\* C3 (as amended): however the delivered bytes were split into chunks, the
\* handler has produced the frames that a single chunk produces, in the same
\* order, and the residual buffers agree from their first 0xAA byte on.
C3_ChunkingInvariance ==
    /\ Frames(log) = Frames(OneChunk.log)
    /\ FromHeader(buffer) = FromHeader(OneChunk.buffer)

\* C3 as stated: the same frames and the same residual buffer.
C3_SameResidualBuffer ==
    /\ Frames(log) = Frames(OneChunk.log)
    /\ buffer = OneChunk.buffer

\* a frame was decoded and the split left a residual the single chunk does not
C3_Witness ==
    /\ Len(log) >= 1
    /\ log[1].checksumOk
    /\ buffer # OneChunk.buffer

\* C4: after every handler call the persistent buffer holds strictly fewer
\* than PACKET_SIZE bytes.
C4_BufferBelowPacketSize == Len(buffer) < PACKET_SIZE

\* a call decoded a frame and left the longest partial frame behind
C4_Witness ==
    /\ Len(log) >= 1
    /\ Len(buffer) = PACKET_SIZE - 1

\* whether the valid frame sent as segment k was decoded
FrameDecoded(k) ==
    \E i \in 1..Len(log) :
        log[i].at = SegOffset(k) /\ log[i].packet = segs[k].bytes

\* C7: a valid frame that arrives after malformed bytes is decoded: once the
\* handler has taken the frame's header byte out of the buffer, the frame is
\* among the frames it processed.
C7_ValidFrameStillDecoded ==
    \A k \in 1..Len(segs) :
        (segs[k].kind = "frame" /\ SegOffset(k) < delivered - Len(buffer))
        => FrameDecoded(k)

\* C8: a frame whose reflection value is below 50 leaves lastSmoothedDistance
\* as it was before the frame.
C8_LowConfidenceLeavesSmoother ==
    \A i \in 1..Len(log) :
        log[i].value < QUALITY_MIN => log[i].after = log[i].before

\* C9: in the server handlers a frame with reflection value >= 50 is sent and
\* recorded exactly once, and a frame below 50 is neither sent nor recorded.
C9_ExactlyOncePerAcceptedFrame ==
    prog \in {"server", "handler"} =>
        /\ \A i \in 1..Len(log) :
               /\ log[i].value >= QUALITY_MIN => log[i].outcome = "sent"
               /\ log[i].value < QUALITY_MIN => log[i].outcome # "sent"
        /\ prog = "server" =>
               Len(collectedSonarData) =
                   Cardinality({i \in 1..Len(log) : log[i].value >= QUALITY_MIN})

-----------------------------------------------------------------------------
(* Properties of the console_1800.js decoder (SpecConsole, SpecFlip) *)

\* the valid frames put on the wire, in order
RECURSIVE FrameBytes(_)
FrameBytes(ss) ==
    IF ss = <<>> THEN <<>>
    ELSE (IF ss[1].kind = "frame" THEN <<ss[1].bytes>> ELSE <<>>)
         \o FrameBytes(Tail(ss))

\* the packets extractAndProcessPacket has yielded, in order
Yielded == [i \in 1..Len(log) |-> log[i].packet]

IsPrefix(a, b) == Len(a) <= Len(b) /\ SubSeq(b, 1, Len(a)) = a

\* the PACKET_LEN bytes of the stream from offset o on
WindowAt(o) == SubSeq(Stream, o + 1, o + PACKET_LEN)

\* no complete window that starts at a junk 0xAA passes the checksum test
NoFalseCandidate ==
    \A k \in 1..Len(segs) :
        segs[k].kind = "junk" =>
            \A j \in 1..Len(segs[k].bytes) :
                (/\ segs[k].bytes[j] = PACKET_HEADER
                 /\ SegOffset(k) + j - 1 + PACKET_LEN <= Len(Stream))
                => ~ChecksumOk(WindowAt(SegOffset(k) + j - 1))

\* C1 as stated: the decoder yields the valid frames of the stream, each once
\* and in order, and nothing else; all of them once the stream is delivered.
C1_ResyncExact ==
    /\ IsPrefix(Yielded, FrameBytes(segs))
    /\ wire = <<>> => Yielded = FrameBytes(segs)

\* C1 (as amended): the same, for streams in which no PACKET_LEN window that
\* starts at a junk 0xAA byte has a trailing byte equal to the XOR of its
\* payload bytes.
C1_ResyncUnlessFalseCandidate == NoFalseCandidate => C1_ResyncExact

\* a frame yielded after the candidate at a junk 0xAA before it was rejected
C1_Witness ==
    /\ NoFalseCandidate
    /\ Len(segs) = 2
    /\ segs[1] = [kind |-> "junk", bytes |-> <<PACKET_HEADER>>]
    /\ segs[2].kind = "frame"
    /\ Len(log) = 1
    /\ log[1].at = 1
    /\ log[1].packet = segs[2].bytes

\* C5: while no 0xAA byte has been delivered, the buffer stays within one
\* packet length after every 'data' event.
C5_HeaderlessBufferBounded ==
    (\A i \in 1..delivered : Stream[i] # PACKET_HEADER)
    => Len(buffer) <= PACKET_LEN

\* C6: a frame with one bit of its metadata or sample bytes flipped, arriving
\* at an empty buffer, is never yielded; once it has arrived completely the
\* candidate at its header has been rejected by dropping the header byte.
C6_FlippedFrameRejected ==
    (Len(segs) = 1 /\ segs[1].kind = "flipped")
    => /\ log = <<>>
       /\ wire = <<>> => buffer = Tail(segs[1].bytes)

\* a frame with a flipped sample bit has arrived completely and was rejected
C6_Witness ==
    /\ Len(segs) = 1
    /\ segs[1].kind = "flipped"
    /\ segs[1].at > NUM_METADATA_BYTES
    /\ wire = <<>>
    /\ log = <<>>
    /\ Len(buffer) = PACKET_LEN - 1

-----------------------------------------------------------------------------
(* Properties of applyExponentialSmoothing (SpecSmooth) *)

\* C10: the first call returns its argument and stores it; every later call
\* moves the stored value by EMA_ALPHA of its distance to the argument,
\* returned - prev = EMA_ALPHA * (raw - prev), and stores what it returns.
C10_SmoothingIsEMA ==
    \A i \in 1..Len(log) :
        LET e == log[i]
        IN  /\ e.after = e.returned
            /\ e.before = null => e.returned = e.arg
            /\ e.before # null =>
                   DecSub(e.returned, e.before) =
                       DecMul(EMA_ALPHA, DecSub(e.arg, e.before))

\* a later call whose argument differs from the stored value
C10_Witness ==
    \E i \in 1..Len(log) :
        /\ log[i].before # null
        /\ log[i].arg # log[i].before
        /\ log[i].returned # log[i].arg

-----------------------------------------------------------------------------
(* JavaScript Number arithmetic with its rounding, for the study of the    *)
(* smoother's convergence, where the rounding decides the outcome.  A      *)
(* Number is <<m, e>>, the value m * 2^e, with a significand of            *)
(* MantissaBits bits and no exponent below -MinExponent (binary64 has 53   *)
(* and 1074); every operation rounds its exact result to the nearest       *)
(* Number, a tie to the even significand.                                  *)

MantissaBits == 8
MinExponent == 12

Abs(n) == IF n < 0 THEN 0 - n ELSE n

RECURSIVE BitLength(_)
BitLength(a) == IF a = 0 THEN 0 ELSE 1 + BitLength(a \div 2)

\* an exact significand scaled up while the exponent allows and it has room
RECURSIVE Normalise(_, _)
Normalise(q, e) ==
    IF q = 0 THEN <<0, 0 - MinExponent>>
    ELSE IF q < Pow2(MantissaBits - 1) /\ e > 0 - MinExponent
    THEN Normalise(2 * q, e - 1)
    ELSE <<q, e>>

\* the Number nearest to n * 2^e
NumRound(n, e) ==
    LET a == Abs(n)
        k == MaxOf(MaxOf(BitLength(a) - MantissaBits, (0 - MinExponent) - e), 0)
        q0 == a \div Pow2(k)
        r == a % Pow2(k)
        half == Pow2(k - 1)
        up == k > 0 /\ (r > half \/ (r = half /\ q0 % 2 = 1))
        q1 == IF up THEN q0 + 1 ELSE q0
        carried == q1 = Pow2(MantissaBits)
        res == Normalise(IF carried THEN q1 \div 2 ELSE q1,
                         IF carried THEN e + k + 1 ELSE e + k)
    IN  IF n < 0 THEN <<0 - res[1], res[2]>> ELSE res

NumInt(i) == NumRound(i, 0)

NumMul(a, b) == NumRound(a[1] * b[1], a[2] + b[2])

\* a + b; an operand too small to reach the rounding position of the other
\* only says on which side of it the sum lies
NumAdd(a, b) ==
    LET hi == IF a[2] >= b[2] THEN a ELSE b
        lo == IF a[2] >= b[2] THEN b ELSE a
        d == hi[2] - lo[2]
    IN  IF hi[1] = 0 THEN lo
        ELSE IF lo[1] = 0 THEN hi
        ELSE IF d > MantissaBits + 2
        THEN NumRound(hi[1] * Pow2(MantissaBits + 2) + (IF lo[1] > 0 THEN 1 ELSE -1),
                      hi[2] - (MantissaBits + 2))
        ELSE NumRound(hi[1] * Pow2(d) + lo[1], lo[2])

NumSub(a, b) == NumAdd(a, <<0 - b[1], b[2]>>)

\* the Number a decimal literal n / d (n, d > 0) denotes: the quotient to
\* more bits than the significand holds, a last bit for the remainder
NumLiteral(n, d) ==
    LET k == MantissaBits + 3 + BitLength(d) - BitLength(n)
        q == (n * Pow2(k)) \div d
        sticky == IF (n * Pow2(k)) % d = 0 THEN 0 ELSE 1
    IN  NumRound(2 * q + sticky, 0 - k - 1)

\* a - b and |a| as exact multiples of 2^-MinExponent, for comparing Numbers
NumUnits(a) == a[1] * Pow2(a[2] + MinExponent)
NumDistance(a, b) == Abs(NumUnits(a) - NumUnits(b))

\* the spacing of the Numbers around a, in the same units
NumSpacing(a) == Pow2(a[2] + MinExponent)

EMA_ALPHA_Number == NumLiteral(1, 10)
SAMPLE_RESOLUTION_Number == NumLiteral(2178, 10000)

\* the smoother that returns the smoothed value and keeps the old state
applyExponentialSmoothingNumberKeepsState(last, currentDistance) ==
    IF last = null
    THEN <<currentDistance, currentDistance>>
    ELSE LET smoothedDistance ==
                 NumAdd(NumMul(EMA_ALPHA_Number, currentDistance),
                        NumMul(NumSub(NumInt(1), EMA_ALPHA_Number), last))
         IN  <<last, smoothedDistance>>

\* applyExponentialSmoothing as the logger computes it, in Number arithmetic
applyExponentialSmoothingNumber(last, currentDistance) ==
    IF last = null
    THEN <<currentDistance, currentDistance>>
    ELSE LET smoothedDistance ==
                 NumAdd(NumMul(EMA_ALPHA_Number, currentDistance),
                        NumMul(NumSub(NumInt(1), EMA_ALPHA_Number), last))
         IN  <<smoothedDistance, smoothedDistance>>

(* applyExponentialSmoothing called again and again with one distance v,   *)
(* from no state or from a stored state.  given holds v and the state the  *)
(* calls started from; log holds the latest call only, with its number.    *)
MaxConvergeCalls == 80

ConstantIndices == {-1, 0, 1, 3, 9, 15}

\* reflection.distance = maxIndex * SAMPLE_RESOLUTION
DistanceOfIndex(index) == NumMul(NumInt(index), SAMPLE_RESOLUTION_Number)

CallsMade == IF log = <<>> THEN 0 ELSE log[1].calls

SmoothConstant ==
    /\ prog = "converge"
    /\ CallsMade < MaxConvergeCalls
    /\ LET sm == applyExponentialSmoothingNumber(lastSmoothedDistance, given.v)
       IN  /\ lastSmoothedDistance' = sm[1]
           /\ log' = <<[arg |-> given.v, before |-> lastSmoothedDistance,
                        returned |-> sm[2], calls |-> CallsMade + 1]>>
    /\ UNCHANGED <<prog, given, wireVars, buffer, collectedSonarData, consoleVars,
                   loggerVars, clients, currentGpsData, now>>

InitConverge ==
    /\ prog = "converge"
    /\ \E i \in ConstantIndices :
       \E start \in {null} \cup {DistanceOfIndex(j) : j \in ConstantIndices} :
           /\ given = [v |-> DistanceOfIndex(i), start |-> start]
           /\ lastSmoothedDistance = start
    /\ segs = <<>>
    /\ wire = <<>>
    /\ delivered = 0
    /\ buffer = <<>>
    /\ isReading = FALSE
    /\ tracker = [buffer |-> <<>>, consistentIndices |-> {}]
    /\ clients = [c \in Clients |-> WS_OPEN]
    /\ collectedSonarData = <<>>
    /\ currentGpsData = [lat |-> null, lon |-> null, initialized |-> FALSE]
    /\ now = StartTime
    /\ lastDbWriteTimestamp = 0
    /\ dbInserts = <<>>
    /\ log = <<>>

NextConverge == SmoothConstant

SpecConverge == InitConverge /\ [][NextConverge]_vars

-----------------------------------------------------------------------------
(* Properties of the smoother under a constant input (SpecConverge) *)

\* how many spacings of the Numbers around v the rounding may leave
Slack == 16

\* |output - v| of the latest call, in units of 2^-MinExponent
OutputDistance == NumDistance(log[1].returned, given.v)

\* |stored state - v| before the latest call
InputDistance == NumDistance(log[1].before, given.v)

RoundingTolerance == Slack * NumSpacing(given.v)

\* C11 as stated: the distance of the output to v never grows from one call
\* to the next and ends up smaller than every tolerance (after
\* MaxConvergeCalls calls it is zero, the only distance below the smallest
\* spacing), and from no state every output equals v.
C11_ConvergesExactly ==
    log # <<>> =>
        /\ log[1].before # null => OutputDistance <= InputDistance
        /\ given.start = null => log[1].returned = given.v
        /\ log[1].calls = MaxConvergeCalls => OutputDistance = 0

\* C11 (as amended): the distance of the output to v does not grow at a call
\* unless it stays within the rounding tolerance, a few spacings of the
\* Numbers around v; after enough calls (MaxConvergeCalls) it is within that
\* tolerance; from no state the first output equals v and every later one
\* is within the tolerance of v.
C11_ConvergesWithinRounding ==
    log # <<>> =>
        /\ log[1].before # null =>
              \/ OutputDistance <= InputDistance
              \/ OutputDistance <= RoundingTolerance
        /\ log[1].before = null => log[1].returned = given.v
        /\ given.start = null => OutputDistance <= RoundingTolerance
        /\ log[1].calls = MaxConvergeCalls => OutputDistance <= RoundingTolerance

\* calls that started outside the tolerance have brought the output within
\* it, and the rounding keeps it off v
C11_Witness ==
    /\ given.start # null
    /\ NumDistance(given.start, given.v) > RoundingTolerance
    /\ log # <<>>
    /\ log[1].calls = MaxConvergeCalls
    /\ OutputDistance <= RoundingTolerance
    /\ OutputDistance > 0
    /\ log[1].returned = log[1].before

-----------------------------------------------------------------------------
(* One valid frame written twice in succession: console_1800.js and the    *)
(* logger's serialBufferHandler take the two copies from an empty buffer,  *)
(* in chunks of any sizes.  given holds the frame and what it encodes.     *)
InitReplay ==
    /\ prog \in {"console", "logger"}
    /\ \E m \in Metas, values \in SampleArrays :
           LET frame == sendData(m[1], m[2], m[3], values)
           IN  /\ given = [frame |-> frame, meta |-> m, values |-> values]
               /\ segs = <<[kind |-> "frame", bytes |-> frame],
                           [kind |-> "frame", bytes |-> frame]>>
               /\ wire = frame \o frame
    /\ delivered = 0
    /\ buffer = <<>>
    /\ isReading = FALSE
    /\ tracker = [buffer |-> <<>>, consistentIndices |-> {}]
    /\ lastSmoothedDistance = null
    /\ clients = [c \in Clients |-> WS_OPEN]
    /\ collectedSonarData = <<>>
    /\ currentGpsData = [lat |-> null, lon |-> null, initialized |-> FALSE]
    /\ now = StartTime
    /\ lastDbWriteTimestamp = 0
    /\ dbInserts = <<>>
    /\ log = <<>>

NextReplay ==
    \/ \E n \in 1..Len(wire) : ConsoleData(n)
    \/ \E n \in 1..Len(wire) : serialBufferHandler(n)

SpecReplay == InitReplay /\ [][NextReplay]_vars

\* what the decoder handed on for one frame: the frame's bytes, its sample
\* array and, where the decoder reads them, the metadata fields
Parsed(entry) ==
    IF prog = "console"
    THEN [packet |-> entry.packet, samples |-> entry.samples,
          metadata |-> <<entry.parsed.depthIndex, entry.parsed.tempScaled,
                         entry.parsed.vDrvScaled, entry.parsed.depthCm,
                         entry.parsed.temperature, entry.parsed.driveVoltage>>]
    ELSE [packet |-> entry.packet, samples |-> entry.samples, metadata |-> <<>>]

\* C12: a valid frame fed twice in succession to a decoder with an empty
\* buffer yields at most one frame per copy, each a copy of the frame with
\* its sample array; once both copies have arrived there are exactly two
\* frames, their parsed metadata and sample arrays are identical, and the
\* buffer is empty.
C12_ReplayIdempotent ==
    /\ Len(log) <= 2
    /\ \A k \in 1..Len(log) :
           /\ log[k].packet = given.frame
           /\ log[k].samples = given.values
           /\ log[k].at = (k - 1) * Len(given.frame)
    /\ wire = <<>> =>
           /\ Len(log) = 2
           /\ Parsed(log[1]) = Parsed(log[2])
           /\ buffer = <<>>

\* both copies of a frame with non-zero metadata and a 0xAA byte among its
\* sample bytes have arrived, cut into chunks inside the frames, and two
\* frames came out
C12_Witness ==
    /\ wire = <<>>
    /\ given.meta # <<0, 0, 0>>
    /\ \E i \in 1..Len(given.values) : given.values[i] = PACKET_HEADER
    /\ Len(log) = 2
    /\ log[2].samples = given.values
    /\ buffer = <<>>

-----------------------------------------------------------------------------
(* findPrimaryReflection on one sweep: given holds the sample array, log   *)
(* the call.  The sweeps are shorter than, as long as and longer than the  *)
(* noise floor range; they hold a ring-down of strong samples at the       *)
(* start, a background level, and one sample set apart from it.            *)
MaxSweep == 160

SweepLengths ==
    {0, 1, 2, NOISE_FLOOR_RANGE - 1, NOISE_FLOOR_RANGE, NOISE_FLOOR_RANGE + 1, MaxSweep}

Sweep(n, ring, level, p, v) ==
    [i \in 1..n |-> IF i <= ring THEN 200 ELSE IF i = p + 1 THEN v ELSE level]

Sweeps ==
    {Sweep(n, ring, level, p, v) :
        n \in SweepLengths, ring \in {0, 1, 3}, level \in {0, 10},
        p \in {0, 1, 5, 120}, v \in {0, 12, 13, 170}}

Reflect ==
    /\ prog = "reflection"
    /\ log = <<>>
    /\ log' = <<[samples |-> given.samples,
                 noiseFloor |-> calculateNoiseFloor(given.samples),
                 reflection |-> findPrimaryReflection(given.samples)]>>
    /\ UNCHANGED <<prog, given, wireVars, buffer, lastSmoothedDistance,
                   collectedSonarData, consoleVars, loggerVars, clients,
                   currentGpsData, now>>

InitReflect ==
    /\ prog = "reflection"
    /\ \E samples \in Sweeps : given = [samples |-> samples]
    /\ segs = <<>>
    /\ wire = <<>>
    /\ delivered = 0
    /\ buffer = <<>>
    /\ isReading = FALSE
    /\ tracker = [buffer |-> <<>>, consistentIndices |-> {}]
    /\ lastSmoothedDistance = null
    /\ clients = [c \in Clients |-> WS_OPEN]
    /\ collectedSonarData = <<>>
    /\ currentGpsData = [lat |-> null, lon |-> null, initialized |-> FALSE]
    /\ now = StartTime
    /\ lastDbWriteTimestamp = 0
    /\ dbInserts = <<>>
    /\ log = <<>>

NextReflect == Reflect

SpecReflect == InitReflect /\ [][NextReflect]_vars

\* samples[i] > noiseFloor * 1.2, the negation of the test of findBlindZoneEnd
ExceedsThreshold(samples, noiseFloor, i) ==
    ~DecLeq(DecInt(samples[i + 1]), DecMul(noiseFloor, <<12, 1>>))

\* the indices of the samples above 1.2 times the noise floor
Exceeding(call) ==
    {i \in 0..(Len(call.samples) - 1) :
        ExceedsThreshold(call.samples, call.noiseFloor, i)}

\* C13: for a non-empty sample array whose values are all zero
\* findPrimaryReflection returns index -1 and value 0.
C13_SilenceGivesNoReflection ==
    (/\ log # <<>>
     /\ Len(log[1].samples) > 0
     /\ \A i \in 1..Len(log[1].samples) : log[1].samples[i] = 0)
    => /\ log[1].reflection.index = -1
       /\ log[1].reflection.value = 0

\* an all-zero sweep long enough for the noise floor to be computed was
\* searched
C13_Witness ==
    /\ log # <<>>
    /\ Len(log[1].samples) > NOISE_FLOOR_RANGE
    /\ \A i \in 1..Len(log[1].samples) : log[1].samples[i] = 0
    /\ log[1].reflection.index = -1
    /\ log[1].reflection.blindZoneEndIndex = 0

\* C14: when exactly one sample exceeds 1.2 times the computed noise floor
\* and its index i is at or after the computed blind-zone end,
\* findPrimaryReflection returns index i and value samples[i].
C14_LonePeakFound ==
    log # <<>> =>
        \A i \in 0..(Len(log[1].samples) - 1) :
            (/\ Exceeding(log[1]) = {i}
             /\ i >= log[1].reflection.blindZoneEndIndex)
            => /\ log[1].reflection.index = i
               /\ log[1].reflection.value = log[1].samples[i + 1]

\* a sweep with a noise floor above zero, whose only sample above the
\* threshold lies beyond the blind zone, was searched and that sample found
C14_Witness ==
    /\ log # <<>>
    /\ log[1].noiseFloor # DecInt(0)
    /\ \E i \in 0..(Len(log[1].samples) - 1) :
           /\ Exceeding(log[1]) = {i}
           /\ i >= log[1].reflection.blindZoneEndIndex
           /\ i > 0
           /\ log[1].reflection.index = i
           /\ log[1].samples[1] > 0

-----------------------------------------------------------------------------
(* The SignalTracker of console_1800.js on its own, constructed with       *)
(* CONSISTENCY_SAMPLES, THRESHOLD and POSITION_TOLERANCE, in a program     *)
(* whose sweeps hold TrackerSamples samples: more than twice the           *)
(* tolerance, so that peaks can lie within it and beyond it.  log holds    *)
(* the sample array of every update and the set the update returned.       *)
TrackerSamples == 14
MaxUpdates == 4

\* the indices that hold a peak in the test sweeps
TrackerPeakSets == {{}, {0}, {5}, {10}, {0, 10}, {4, 12}}

TrackerFrame(peaks, v, w) ==
    [i \in 1..TrackerSamples |-> IF (i - 1) \in peaks THEN v ELSE w]

\* strong peaks over silence, and one peak exactly at the threshold over a
\* background just below it
TrackerFrames ==
    {TrackerFrame(peaks, 170, 0) : peaks \in TrackerPeakSets}
        \cup {TrackerFrame({5}, THRESHOLD, THRESHOLD - 1)}

\* tracker.updateAndGetConsistentIndices(values)
TrackerUpdate(values) ==
    /\ prog = "tracker"
    /\ Len(log) < MaxUpdates
    /\ LET tr == updateAndGetConsistentIndicesOf(tracker, values, TrackerSamples)
       IN  /\ tracker' = tr
           /\ log' = Append(log, [values |-> values,
                                  returned |-> tr.consistentIndices])
    /\ UNCHANGED <<prog, given, wireVars, buffer, lastSmoothedDistance,
                   collectedSonarData, isReading, loggerVars, clients,
                   currentGpsData, now>>

InitTracker ==
    /\ prog = "tracker"
    /\ InitCommon

NextTracker == \E values \in TrackerFrames : TrackerUpdate(values)

SpecTracker == InitTracker /\ [][NextTracker]_vars

\* the above-threshold indices of a sample array
Above(values) == {i \in 0..(Len(values) - 1) : values[i + 1] >= THRESHOLD}

\* the positions in log of the last CONSISTENCY_SAMPLES frames
Window == {k \in 1..Len(log) : k > Len(log) - CONSISTENCY_SAMPLES}

\* the frame at position k of log has a peak within the tolerance of i
PeakNear(k, i) ==
    \E j \in Above(log[k].values) : Abs(i - j) <= POSITION_TOLERANCE

\* C15: once the history holds K entries the update returns exactly the
\* indices i of the most recent peak set for which every older peak set in
\* the history holds some j with |i - j| <= tolerance; at every update the
\* result is a subset of the newest frame's above-threshold indices.
C15_ConsistentIsWindowConjunction ==
    log # <<>> =>
        /\ log[Len(log)].returned \subseteq Above(log[Len(log)].values)
        /\ Len(log) >= CONSISTENCY_SAMPLES =>
               log[Len(log)].returned =
                   {i \in Above(log[Len(log)].values) :
                       \A k \in Window \ {Len(log)} : PeakNear(k, i)}

\* with a full history, one newest peak was kept and another dropped
C15_Witness ==
    /\ Len(log) > CONSISTENCY_SAMPLES
    /\ log[Len(log)].returned # {}
    /\ log[Len(log)].returned # Above(log[Len(log)].values)

\* C16 as stated: whenever the three frames of a full window each hold a
\* peak within the tolerance of one common position p, the update for the
\* third frame returns a peak of that frame near p.
C16_CommonPositionMarked ==
    Len(log) >= CONSISTENCY_SAMPLES =>
        \A p \in 0..(TrackerSamples - 1) :
            (\A k \in Window : PeakNear(k, p))
            => \E i \in log[Len(log)].returned : Abs(i - p) <= POSITION_TOLERANCE

\* C16 (as amended): whenever the two older frames of a full window each
\* hold a peak within the tolerance of the position i of a peak of the
\* third frame, the update for the third frame returns i.
C16_PeakPositionMarked ==
    Len(log) >= CONSISTENCY_SAMPLES =>
        \A i \in Above(log[Len(log)].values) :
            (\A k \in Window \ {Len(log)} : PeakNear(k, i))
            => i \in log[Len(log)].returned

\* a peak was returned that the two older frames hold only nearby, not at
\* the same index
C16_Witness ==
    /\ Len(log) >= CONSISTENCY_SAMPLES
    /\ \E i \in log[Len(log)].returned :
           \A k \in Window \ {Len(log)} :
               /\ i \notin Above(log[k].values)
               /\ PeakNear(k, i)

\* C17: an index i is never in the returned set when, among the last K
\* frames, only one frame (the newest or an older one) has an
\* above-threshold sample within the tolerance of i.
C17_LoneSpikeNeverConsistent ==
    log # <<>> =>
        \A i \in 0..(TrackerSamples - 1) :
            Cardinality({k \in Window : PeakNear(k, i)}) = 1
            => i \notin log[Len(log)].returned

\* with a full history the newest frame alone holds a peak, which the
\* update did not return
C17_Witness ==
    /\ Len(log) > CONSISTENCY_SAMPLES
    /\ \E i \in Above(log[Len(log)].values) :
           /\ \A k \in Window \ {Len(log)} : ~PeakNear(k, i)
           /\ i \notin log[Len(log)].returned
    /\ \E k \in Window \ {Len(log)} : Above(log[k].values) # {}

\* the peak list of a sample array: its above-threshold indices in
\* increasing order
IsPeakListOf(peaks, values) ==
    /\ {peaks[j] : j \in 1..Len(peaks)} = Above(values)
    /\ \A j \in 1..(Len(peaks) - 1) : peaks[j] < peaks[j + 1]

\* C18: the peak-list history holds at most K entries, the peak lists of
\* the most recent min(number of updates, K) frames in arrival order.
C18_HistoryIsRecentWindow ==
    LET held == MinOf(Len(log), CONSISTENCY_SAMPLES)
    IN  /\ Len(tracker.buffer) <= CONSISTENCY_SAMPLES
        /\ Len(tracker.buffer) = held
        /\ \A k \in 1..held :
               IsPeakListOf(tracker.buffer[k], log[Len(log) - held + k].values)

\* more than K updates were made, the evicted frame's peaks differ from
\* those of every frame kept
C18_Witness ==
    /\ Len(log) > CONSISTENCY_SAMPLES
    /\ Len(tracker.buffer) = CONSISTENCY_SAMPLES
    /\ \A k \in Window :
           Above(log[k].values) # Above(log[Len(log) - CONSISTENCY_SAMPLES].values)

\* C19: each of the first K-1 updates of a freshly constructed tracker
\* returns the empty set, whatever the samples, and the stored
\* consistentIndices is empty after each of them.
C19_NothingBeforeWindowFull ==
    (log # <<>> /\ Len(log) <= CONSISTENCY_SAMPLES - 1)
    => /\ \A k \in 1..Len(log) : log[k].returned = {}
       /\ tracker.consistentIndices = {}

\* K-1 updates with the same peak in each returned nothing
C19_Witness ==
    /\ Len(log) = CONSISTENCY_SAMPLES - 1
    /\ \A k \in 1..Len(log) : Above(log[k].values) = {5}
    /\ tracker.consistentIndices = {}
    /\ Len(tracker.buffer) = CONSISTENCY_SAMPLES - 1

-----------------------------------------------------------------------------
(* The logger over time: whole frames arrive at serialBufferHandler, the   *)
(* clock advances between them, and gpsd reports a position.               *)
MaxFrames == 3
MaxElapsed == 10000

\* the milliseconds that pass between two events
Elapses == {2500, 4999, 5000}

\* a TPV report of gpsd: <<lat, lon>>, both non-zero
Positions == {<<DecInt(52), DecInt(4)>>}

\* new Date() moves on
Tick(d) ==
    /\ prog = "logger"
    /\ now + d <= StartTime + MaxElapsed
    /\ now' = now + d
    /\ UNCHANGED <<prog, given, wireVars, sonarVars, consoleVars, loggerVars,
                   clients, currentGpsData>>

\* gpspipe.stdout.on('data') with a TPV report holding lat and lon
GpsReport(position) ==
    /\ prog = "logger"
    /\ currentGpsData # [lat |-> position[1], lon |-> position[2], initialized |-> TRUE]
    /\ currentGpsData' = [lat |-> position[1], lon |-> position[2], initialized |-> TRUE]
    /\ UNCHANGED <<prog, given, wireVars, sonarVars, consoleVars, loggerVars,
                   clients, now>>

\* serialBufferHandler(data) with one whole frame as the chunk
FrameArrives(values) ==
    /\ prog = "logger"
    /\ Len(log) < MaxFrames
    /\ LET data == sendData(0, 0, 0, values)
           st == LoggerLoop(View(data))
       IN  /\ segs' = Append(segs, [kind |-> "frame", bytes |-> data, time |-> now])
           /\ delivered' = delivered + Len(data)
           /\ buffer' = st.buffer
           /\ lastSmoothedDistance' = st.last
           /\ collectedSonarData' = st.collected
           /\ lastDbWriteTimestamp' = st.lastDb
           /\ dbInserts' = st.inserts
           /\ log' = st.log
    /\ UNCHANGED <<prog, given, wire, consoleVars, clients, currentGpsData, now>>

InitThrottle ==
    /\ prog = "logger"
    /\ InitCommon

NextThrottle ==
    \/ \E d \in Elapses : Tick(d)
    \/ \E position \in Positions : GpsReport(position)
    \/ \E values \in SampleArrays : FrameArrives(values)

SpecThrottle == InitThrottle /\ [][NextThrottle]_vars

\* C20: any two database insert attempts are separated by at least
\* DB_WRITE_INTERVAL_MS of frame time, however many frames passed the
\* quality threshold in between.
C20_InsertsAtLeastIntervalApart ==
    \A a, b \in 1..Len(dbInserts) :
        a < b => dbInserts[b].timestamp - dbInserts[a].timestamp >= DB_WRITE_INTERVAL_MS

\* two inserts were attempted, and between them a frame that passed the
\* quality threshold was throttled
C20_Witness ==
    /\ Len(dbInserts) = 2
    /\ Len(log) = 3
    /\ log[2].outcome = "throttled"
    /\ log[2].value >= QUALITY_MIN
    /\ dbInserts[2].timestamp - dbInserts[1].timestamp = DB_WRITE_INTERVAL_MS

-----------------------------------------------------------------------------
(* The logger with its database: the query processDataPacket awaits        *)
(* settles later, in any order, while frames keep arriving.                *)

\* the catch block leaving the error unreported
InsertFailedSilently(insert, frames) == [insert EXCEPT !.state = "failed"]

\* catch (error) { console.error('[DB ERROR] Database insertion failed:', ...) }
\* frames is the number of frames decoded when the error is caught
InsertFailed(insert, frames) ==
    [timestamp |-> insert.timestamp, lat |-> insert.lat, lon |-> insert.lon,
     value |-> insert.value, index |-> insert.index, distance |-> insert.distance,
     state |-> "failed", reported |-> "[DB ERROR]", frames |-> frames]

\* await dbClient.query(INSERT_SQL, values) resolves: [LOG SUCCESS]
InsertCompletes(k) ==
    /\ prog = "logger"
    /\ k \in 1..Len(dbInserts)
    /\ dbInserts[k].state = "pending"
    /\ dbInserts' = [dbInserts EXCEPT ![k].state = "done"]
    /\ UNCHANGED <<prog, given, wireVars, sonarVars, consoleVars,
                   lastDbWriteTimestamp, clients, currentGpsData, now>>

\* await dbClient.query(INSERT_SQL, values) rejects
InsertFails(k) ==
    /\ prog = "logger"
    /\ k \in 1..Len(dbInserts)
    /\ dbInserts[k].state = "pending"
    /\ dbInserts' = [dbInserts EXCEPT ![k] = InsertFailed(@, Len(log))]
    /\ UNCHANGED <<prog, given, wireVars, sonarVars, consoleVars,
                   lastDbWriteTimestamp, clients, currentGpsData, now>>

InitInsert ==
    /\ prog = "logger"
    /\ InitCommon

NextInsert ==
    \/ \E d \in Elapses : Tick(d)
    \/ \E position \in Positions : GpsReport(position)
    \/ \E values \in SampleArrays : FrameArrives(values)
    \/ \E k \in 1..MaxFrames : InsertCompletes(k)
    \/ \E k \in 1..MaxFrames : InsertFails(k)

SpecInsert == InitInsert /\ [][NextInsert]_vars

\* some insert has not completed, or has failed
InsertUnsettled ==
    \E k \in 1..Len(dbInserts) : dbInserts[k].state \in {"pending", "failed"}

\* the samples held by the bytes of a frame
SamplesOf(frame) == ReadSamples(frame, 1 + NUM_METADATA_BYTES)

\* the frame arriving in this step is decoded, its reflection extracted and
\* the smoother applied to it
FrameIngested ==
    /\ Len(log') = Len(log) + 1
    /\ SubSeq(log', 1, Len(log)) = log
    /\ buffer' = <<>>
    /\ LET e == log'[Len(log')]
           arrived == SamplesOf(segs'[Len(segs')].bytes)
           reflection == findPrimaryReflection(arrived)
       IN  /\ e.samples = arrived
           /\ e.value = reflection.value
           /\ e.index = reflection.index
           /\ e.before = lastSmoothedDistance
           /\ e.after = lastSmoothedDistance'
           /\ lastSmoothedDistance' # null

\* C21: while an insert has not completed, or after it has failed, a frame
\* that arrives is still decoded, extracted and smoothed; a failed insert
\* is reported, and no insert is attempted again before the interval has
\* elapsed since the failed one.
C21_InsertNeverBlocksIngestion ==
    /\ [][(delivered' # delivered /\ InsertUnsettled) => FrameIngested]_vars
    /\ [](\A a \in 1..Len(dbInserts) :
              dbInserts[a].state = "failed"
              => /\ "reported" \in DOMAIN dbInserts[a]
                 /\ \A b \in 1..Len(dbInserts) :
                        a < b => dbInserts[b].timestamp - dbInserts[a].timestamp
                                     >= DB_WRITE_INTERVAL_MS)

\* an insert failed and was reported, frames were decoded after the
\* failure, and a later insert is pending while the last frame arrived
C21_Witness ==
    /\ Len(dbInserts) = 2
    /\ dbInserts[1].state = "failed"
    /\ "reported" \in DOMAIN dbInserts[1]
    /\ Len(log) > dbInserts[1].frames + 1
    /\ dbInserts[2].state = "pending"
    /\ log[Len(log)].outcome = "insert"

\* the raw distance of the k-th frame that arrived
ArrivedDistance(k) ==
    DecMul(DecInt(findPrimaryReflection(SamplesOf(segs[k].bytes)).index),
           SAMPLE_RESOLUTION)

\* the EMA of the first k frames taken one after the other in arrival order:
\* the first distance, then 0.1 * distance + 0.9 * previous
RECURSIVE SequentialEMA(_)
SequentialEMA(k) ==
    IF k = 0 THEN null
    ELSE IF k = 1 THEN ArrivedDistance(1)
    ELSE DecAdd(DecMul(<<1, 1>>, ArrivedDistance(k)),
                DecMul(<<9, 1>>, SequentialEMA(k - 1)))

\* C22: in the logger the extraction and smoothing of the k-th decoded
\* frame are complete before those of the next frame start, whatever the
\* order in which the database inserts settle: every frame is smoothed from
\* the state its predecessor left, and lastSmoothedDistance is the
\* sequential EMA of the frames in arrival order.
C22_SmoothingInArrivalOrder ==
    /\ Len(log) = Len(segs)
    /\ \A k \in 1..Len(log) :
           /\ log[k].samples = SamplesOf(segs[k].bytes)
           /\ log[k].before = SequentialEMA(k - 1)
           /\ log[k].after = SequentialEMA(k)
    /\ lastSmoothedDistance = SequentialEMA(Len(segs))

\* the second insert settled while the first is still pending, and the
\* frames smoothed meanwhile had different distances
C22_Witness ==
    /\ Len(dbInserts) = 2
    /\ dbInserts[1].state = "pending"
    /\ dbInserts[2].state = "done"
    /\ Len(log) = 3
    /\ log[2].index # log[3].index
    /\ lastSmoothedDistance = SequentialEMA(3)

-----------------------------------------------------------------------------
(* Properties of the dissemination to subscribers (Spec) *)

\* C23: a record is sent only to the subscribers whose state is OPEN when
\* it is disseminated; a subscriber that is not open is skipped, nothing is
\* kept for it and what was sent earlier is never sent again or changed;
\* and the buffer has advanced past every frame the handler took, whoever
\* was connected.
C23_SubscribersNeverStall ==
    [][log' # log =>
          /\ Len(log') > Len(log)
          /\ SubSeq(log', 1, Len(log)) = log
          /\ \A k \in (Len(log) + 1)..Len(log') :
                 /\ log'[k].outcome = "sent" =>
                        log'[k].sentTo = {c \in Clients : clients[c] = WS_OPEN}
                 /\ log'[k].outcome # "sent" => log'[k].sentTo = {}
                 /\ delivered' - Len(buffer') >= log'[k].at + PACKET_SIZE]_vars

\* a record went out while a subscriber was closed; the next frame was
\* processed and its record went to both subscribers, the one that came
\* back included, right after the first frame in the stream
C23_Witness ==
    /\ prog \in {"server", "handler"}
    /\ Len(log) = 2
    /\ log[1].outcome = "sent"
    /\ log[1].sentTo # Clients
    /\ log[2].outcome = "sent"
    /\ log[2].sentTo = Clients
    /\ log[2].at = log[1].at + PACKET_SIZE

-----------------------------------------------------------------------------
(* The two firmwares' sendData, and the console decoder on what the 16-bit *)
(* firmware writes.                                                         *)

\* TUSS4470_R3_with_TEMP_OUT.ino: Serial.write(analogValues[i]) for each of
\* the byte samples
ByteSampleBytes(analogValues) == [i \in 1..Len(analogValues) |-> analogValues[i] % 256]

\* TUSS4470_R3_with_TEMP_OUT.ino sendData: header, six metadata bytes, one
\* byte per sample, checksum
sendDataByteSamples(depthDetectSample, temp_scaled, vDrv_scaled, analogValues) ==
    LET body == <<HighByte(depthDetectSample), LowByte(depthDetectSample),
                  HighByte(temp_scaled), LowByte(temp_scaled),
                  HighByte(vDrv_scaled), LowByte(vDrv_scaled)>>
                \o ByteSampleBytes(analogValues)
    IN  <<PACKET_HEADER>> \o body \o <<XorAll(body)>>

\* depth index (uint16), scaled temperature (int16), scaled drive voltage (uint16)
FirmwareMetas == {0, 300, 65535} \X {-32768, -5, 0, 32767} \X {0, 1234, 65535}

\* uint16_t analogValues[NUM_SAMPLES]
WordSampleArrays == [1..NUM_SAMPLES -> {0, 170, 1023, 65535}]

\* byte analogValues[NUM_SAMPLES]
ByteSampleArrays == [1..NUM_SAMPLES -> {0, 170, 255}]

\* one call of the 16-bit firmware's sendData, its bytes put on the serial line
SendDataWords(m, values) ==
    /\ prog = "console"
    /\ segs = <<>>
    /\ LET frame == sendData(m[1], m[2], m[3], values)
       IN  /\ segs' = <<[kind |-> "frame", bytes |-> frame]>>
           /\ wire' = frame
    /\ given' = [firmware |-> "part_001", meta |-> m, values |-> values]
    /\ UNCHANGED <<prog, delivered, sonarVars, consoleVars, loggerVars, clients,
                   currentGpsData, now>>

\* one call of the 8-bit firmware's sendData, its bytes put on the serial line
SendDataBytes(m, values) ==
    /\ prog = "console"
    /\ segs = <<>>
    /\ LET frame == sendDataByteSamples(m[1], m[2], m[3], values)
       IN  /\ segs' = <<[kind |-> "frame", bytes |-> frame]>>
           /\ wire' = frame
    /\ given' = [firmware |-> "TUSS4470_R3_with_TEMP_OUT", meta |-> m, values |-> values]
    /\ UNCHANGED <<prog, delivered, sonarVars, consoleVars, loggerVars, clients,
                   currentGpsData, now>>

InitFirmware ==
    /\ prog = "console"
    /\ InitCommon

NextFirmware ==
    \/ \E m \in FirmwareMetas, values \in WordSampleArrays : SendDataWords(m, values)
    \/ \E m \in FirmwareMetas, values \in ByteSampleArrays : SendDataBytes(m, values)
    \/ \E n \in 1..Len(wire) : ConsoleData(n)

SpecFirmware == InitFirmware /\ [][NextFirmware]_vars

\* C24: every call of the firmware's sendData writes exactly
\* 7 + 2*NUM_SAMPLES + 1 bytes, which is the PACKET_SIZE the JavaScript
\* decoder computes for the same NUM_SAMPLES.
C24_FrameIsPacketSize ==
    \A k \in 1..Len(segs) :
        /\ Len(segs[k].bytes) = 7 + 2 * NUM_SAMPLES + 1
        /\ Len(segs[k].bytes) = PACKET_SIZE

-----------------------------------------------------------------------------
(* Frames processed while no location fix has been received *)

\* C26: while no GPS fix has ever been received, every frame whose reflection
\* value is at least 50 is still smoothed, and its record is collected with a
\* null latitude and longitude (server) or its database write is withheld
\* (logger); no row with a null position is inserted.
C26_MissingFixRecoverable ==
    /\ ~currentGpsData.initialized =>
           /\ \A i \in 1..Len(log) :
                  log[i].value >= QUALITY_MIN =>
                      /\ log[i].after # null
                      /\ prog \in {"server", "handler"} => log[i].outcome = "sent"
                      /\ prog = "logger" => log[i].outcome \in {"throttled", "nogps"}
           /\ prog = "server" =>
                  /\ Len(collectedSonarData) =
                         Cardinality({i \in 1..Len(log) : log[i].value >= QUALITY_MIN})
                  /\ \A j \in 1..Len(collectedSonarData) :
                         collectedSonarData[j].gps = [lat |-> null, lon |-> null]
           /\ prog = "logger" => dbInserts = <<>>
    /\ \A a \in 1..Len(dbInserts) :
           dbInserts[a].lat # null /\ dbInserts[a].lon # null

-----------------------------------------------------------------------------
(* The console decoder on a candidate whose checksum does not match *)

\* whether the first candidate in buf, a header with PACKET_LEN bytes from it
\* on, fails the checksum test
MismatchAtHeader(buf) ==
    LET headerIndex == FindHeader(buf, 0)
    IN  /\ headerIndex # -1
        /\ Len(buf) >= headerIndex + PACKET_LEN
        /\ LET potentialPacket == Slice(buf, headerIndex, headerIndex + PACKET_LEN)
           IN  CalculatedChecksum(Slice(potentialPacket, 1, 1 + PAYLOAD_LEN))
                   # potentialPacket[PACKET_LEN]

\* C27: when the first candidate of a 'data' call fails the checksum test,
\* the call ends as if it had started on the bytes after that candidate's
\* header: only the header byte and the junk before it are removed, every
\* byte after the header stays, in order, and the scan restarts on them.
C27_MismatchDropsOnlyHeader ==
    [][\A n \in 1..Len(wire) :
           (prog = "console" /\ delivered' = delivered + n
                /\ MismatchAtHeader(buffer \o Chunk(n))) =>
               LET data == buffer \o Chunk(n)
                   headerIndex == FindHeader(data, 0)
                   followed == SliceFrom(data, headerIndex + 1)
                   restart == ConsoleLoop(
                       [buffer |-> followed,
                        pos |-> delivered - Len(buffer) + headerIndex + 1,
                        isReading |-> isReading, tracker |-> tracker,
                        log |-> log, packet |-> null, at |-> 0, lens |-> <<>>])
               IN  /\ buffer' = restart.buffer
                   /\ log' = restart.log
                   /\ tracker' = restart.tracker
                   /\ Len(buffer') <= Len(followed)
                   /\ buffer' = SliceFrom(followed, Len(followed) - Len(buffer'))]_vars

\* a stray header byte directly before a frame: the candidate starting at the
\* stray byte failed the checksum test and the frame behind it was decoded
C27_Witness ==
    /\ prog = "console"
    /\ Len(segs) >= 2
    /\ segs[1].kind = "junk"
    /\ segs[1].bytes = <<PACKET_HEADER>>
    /\ segs[2].kind = "frame"
    /\ MismatchAtHeader(segs[1].bytes \o segs[2].bytes)
    /\ Len(log) >= 1
    /\ log[1].at = 1
    /\ log[1].packet = segs[2].bytes

-----------------------------------------------------------------------------
(* What the server handlers remove from the buffer for a frame *)

\* the stream offset of what follows the k-th frame taken: the next frame
\* taken or, after the last, the first byte still in the buffer
NextTaken(k) == IF k < Len(log) THEN log[k + 1].at ELSE delivered - Len(buffer)

\* C28: in the server handlers every frame taken, whether sent, skipped as
\* low-confidence or caught throwing, removes exactly its PACKET_SIZE bytes:
\* the buffer is always the undisturbed tail of the bytes delivered, what
\* comes next is never before the frame's end, and nothing between the
\* frame's end and what comes next is a header byte, so no following frame
\* is removed with it.
C28_FrameRemovesPacketSize ==
    prog \in {"server", "handler"} =>
        /\ buffer = SubSeq(Stream, delivered - Len(buffer) + 1, delivered)
        /\ \A k \in 1..Len(log) :
               /\ log[k].packet = SubSeq(Stream, log[k].at + 1, log[k].at + PACKET_SIZE)
               /\ NextTaken(k) >= log[k].at + PACKET_SIZE
               /\ \A i \in (log[k].at + PACKET_SIZE + 1)..NextTaken(k) :
                      Stream[i] # PACKET_HEADER

\* two frames back to back, the first skipped as low-confidence and the
\* second caught throwing, each taken at its own offset
C28_Witness ==
    /\ prog = "server"
    /\ Len(log) = 2
    /\ log[1].outcome = "skipped"
    /\ log[2].outcome = "threw"
    /\ log[1].at = 0
    /\ log[2].at = PACKET_SIZE
    /\ buffer = <<>>
    /\ delivered = 2 * PACKET_SIZE

-----------------------------------------------------------------------------
(* What the logger and the sonarPacketHandler discard as junk *)

\* whether the byte at stream offset o was removed as part of a frame taken
InFrameTaken(o) ==
    \E k \in 1..Len(log) : log[k].at <= o /\ o < log[k].at + PACKET_SIZE

\* the stream offset of the buffer's first byte
BufferStart == delivered - Len(buffer)

\* whether the byte removed last was removed as junk
JunkRemovedLast == BufferStart > 0 /\ ~InFrameTaken(BufferStart - 1)

\* C29: in the logger and the sonarPacketHandler no header byte is ever
\* discarded as junk: every byte removed from the buffer outside a frame
\* taken is not 0xAA, the buffer is the undisturbed tail of the bytes
\* delivered, and a 'data' call that ends on a junk removal leaves the
\* buffer empty or starting with 0xAA.
C29_JunkRemovalKeepsHeaders ==
    /\ [](prog \in {"logger", "handler"} =>
             /\ buffer = SubSeq(Stream, BufferStart + 1, delivered)
             /\ \A o \in 0..(BufferStart - 1) :
                    ~InFrameTaken(o) => Stream[o + 1] # PACKET_HEADER)
    /\ [][(prog \in {"logger", "handler"} /\ BufferStart' > BufferStart
                /\ JunkRemovedLast') =>
               (buffer' = <<>> \/ buffer'[1] = PACKET_HEADER)]_vars

\* a run of zeros as long as a frame was discarded before a frame of which
\* all but the last byte has arrived: the buffer starts at the frame's header
C29_Witness ==
    /\ prog = "logger"
    /\ Len(segs) = 2
    /\ segs[1].kind = "junk"
    /\ Len(segs[1].bytes) = PACKET_SIZE + 1
    /\ segs[2].kind = "frame"
    /\ log = <<>>
    /\ delivered = 2 * PACKET_SIZE
    /\ Len(buffer) = PACKET_SIZE - 1
    /\ buffer[1] = PACKET_HEADER

-----------------------------------------------------------------------------
(* Forward progress of the console and logger decoders on frames, junk and *)
(* stray header bytes                                                       *)

\* line noise holding two header bytes: the candidates starting at them are
\* tried one after the other when a frame follows
StrayHeaders == <<PACKET_HEADER, 1, PACKET_HEADER>>

Noise(bytes) ==
    /\ Len(segs) < MaxSegs
    /\ segs' = Append(segs, [kind |-> "junk", bytes |-> bytes])
    /\ wire' = wire \o bytes
    /\ UNCHANGED <<prog, given, delivered, sonarVars, consoleVars, loggerVars, clients,
                   currentGpsData, now>>

InitDecode ==
    /\ prog \in {"console", "logger"}
    /\ InitCommon

NextDecode ==
    \/ \E values \in SampleArrays : SendFrame(values)
    \/ \E j \in JunkRuns : Junk(j[1], j[2])
    \/ Noise(StrayHeaders)
    \/ \E n \in 1..Len(wire) : ConsoleData(n)
    \/ \E n \in 1..Len(wire) : serialBufferHandler(n)

SpecDecode == InitDecode /\ [][NextDecode]_vars

\* the 'data' handler run on the buffer with the next n bytes appended
Handled(n) ==
    IF prog = "console"
    THEN ConsoleLoop([buffer |-> buffer \o Chunk(n),
                      pos |-> delivered - Len(buffer),
                      isReading |-> isReading, tracker |-> tracker,
                      log |-> log, packet |-> null, at |-> 0, lens |-> <<>>])
    ELSE LoggerLoop(View(Chunk(n)))

\* C30: every 'data' handler call of the console and the logger terminates;
\* the buffer is strictly shorter each time a loop iteration or a retry of
\* extractAndProcessPacket begins than it was the time before, it never
\* grows within the call, and the iterations and retries of one call are at
\* most as many as the bytes in the buffer when the call began.
C30_DecodingMakesProgress ==
    [][\A n \in 1..Len(wire) :
           delivered' = delivered + n =>
               LET bytes == Len(buffer) + n
                   r == Handled(n)
               IN  /\ buffer' = r.buffer
                   /\ log' = r.log
                   /\ r.lens # <<>> => r.lens[1] = bytes
                   /\ \A i \in 1..(Len(r.lens) - 1) : r.lens[i + 1] < r.lens[i]
                   /\ r.lens # <<>> => Len(r.buffer) <= r.lens[Len(r.lens)]
                   /\ Len(r.buffer) <= bytes
                   /\ Len(r.lens) - 1 <= bytes]_vars

\* two stray header bytes before a frame: both candidates starting at them
\* were retried away and the frame behind them was decoded
C30_Witness ==
    /\ prog = "console"
    /\ Len(segs) = 2
    /\ segs[1].bytes = StrayHeaders
    /\ segs[2].kind = "frame"
    /\ wire = <<>>
    /\ Len(log) = 1
    /\ log[1].at = Len(StrayHeaders)
    /\ log[1].packet = segs[2].bytes
    /\ buffer = <<>>

-----------------------------------------------------------------------------
(* findPrimaryReflection and findBlindZoneEnd against their descriptions   *)
(* (SpecReflect)                                                            *)

\* the indices the forward scan of a call visits: [blindZoneEndIndex, N)
ScanRange(call) ==
    call.reflection.blindZoneEndIndex..(Len(call.samples) - 1)

\* the largest sample over the scan range, 0 when the range is empty
RangeMax(call) ==
    IF ScanRange(call) = {} THEN 0
    ELSE CHOOSE v \in {call.samples[i + 1] : i \in ScanRange(call)} :
             \A i \in ScanRange(call) : call.samples[i + 1] <= v

\* the lowest index of the scan range holding v
LowestIndexOf(call, v) ==
    CHOOSE i \in ScanRange(call) :
        /\ call.samples[i + 1] = v
        /\ \A j \in ScanRange(call) : call.samples[j + 1] = v => i <= j

\* C31 as stated: findPrimaryReflection returns the maximum sample value over
\* [blindZoneEnd, N) together with the lowest index at which that maximum
\* occurs; when blindZoneEnd >= N it returns value 0 and index -1.
C31_MaxWithLowestIndex ==
    (log # <<>> /\ Len(log[1].samples) > 0) =>
        IF ScanRange(log[1]) = {}
        THEN log[1].reflection.value = 0 /\ log[1].reflection.index = -1
        ELSE /\ log[1].reflection.value = RangeMax(log[1])
             /\ log[1].reflection.index = LowestIndexOf(log[1], RangeMax(log[1]))

\* C31 amended: the lowest index of the maximum is returned when the maximum
\* is above zero; when blindZoneEnd >= N or every sample of [blindZoneEnd, N)
\* is zero the result is value 0 and index -1.
C31_MaxWithLowestIndexAboveZero ==
    (log # <<>> /\ Len(log[1].samples) > 0) =>
        /\ log[1].reflection.value = RangeMax(log[1])
        /\ IF RangeMax(log[1]) > 0
           THEN log[1].reflection.index = LowestIndexOf(log[1], RangeMax(log[1]))
           ELSE log[1].reflection.index = -1

\* a sweep whose maximum behind the blind zone occurs at several indices:
\* the lowest of them is returned
C31_Witness ==
    /\ log # <<>>
    /\ log[1].reflection.blindZoneEndIndex > 0
    /\ log[1].reflection.value > 0
    /\ Cardinality({i \in ScanRange(log[1]) :
                       log[1].samples[i + 1] = log[1].reflection.value}) > 1
    /\ log[1].reflection.index = LowestIndexOf(log[1], log[1].reflection.value)

\* the sum of the last NOISE_FLOOR_RANGE samples, 0 for a shorter array: 100
\* times the noise floor
TailSum(samples) ==
    IF Len(samples) < NOISE_FLOOR_RANGE THEN 0
    ELSE SumSeq(SubSeq(samples, Len(samples) - NOISE_FLOOR_RANGE + 1, Len(samples)))

\* the indices i < min(N, 500) with samples[i] <= 1.2 * noiseFloor, in whole
\* numbers: 1000 * samples[i] <= 12 * (100 * noiseFloor)
AtOrBelowThreshold(samples) ==
    {i \in 0..(MinOf(Len(samples), 500) - 1) :
        10 * NOISE_FLOOR_RANGE * samples[i + 1] <= 12 * TailSum(samples)}

C37_ReflectionWellFormed ==
    log # <<>> =>
        LET r == log[1].reflection
            N == Len(log[1].samples)
        IN  /\ \/ r.index = -1 /\ r.value = 0
               \/ /\ r.blindZoneEndIndex <= r.index
                  /\ r.index < N
                  /\ r.value = log[1].samples[r.index + 1]
                  /\ r.value > 0
            /\ \A i \in ScanRange(log[1]) : log[1].samples[i + 1] <= r.value

\* a reflection found behind a blind zone, above samples of the background
C37_Witness ==
    /\ log # <<>>
    /\ log[1].reflection.blindZoneEndIndex > 0
    /\ log[1].reflection.index > log[1].reflection.blindZoneEndIndex
    /\ log[1].reflection.value = log[1].samples[log[1].reflection.index + 1]
    /\ \E i \in ScanRange(log[1]) :
           log[1].samples[i + 1] > 0 /\ log[1].samples[i + 1] < log[1].reflection.value

\* C38: the raw distance returned by findPrimaryReflection is never negative:
\* it is index * SAMPLE_RESOLUTION when a reflection is found and 0 when none
\* is (index -1), for non-empty arrays as for the empty one.
C38_DistanceNeverNegative ==
    log # <<>> =>
        LET r == log[1].reflection
        IN  /\ DecLeq(DecInt(0), r.distance)
            /\ r.index >= 0 => r.distance = DecMul(DecInt(r.index), SAMPLE_RESOLUTION)
            /\ r.index = -1 => r.distance = DecInt(0)

-----------------------------------------------------------------------------
(* Where every byte the logger received has gone *)

\* C33: in the logger, after any sequence of serialBufferHandler calls, the
\* buffer is the contiguous tail of the bytes received; the frames consumed
\* are copies of disjoint stretches of the bytes before that tail, in order;
\* so every byte received is in the buffer, in exactly one consumed frame, or
\* discarded as junk, and none is duplicated or reordered.
C33_BytesConserved ==
    prog = "logger" =>
        /\ BufferStart >= 0
        /\ buffer = SubSeq(Stream, BufferStart + 1, delivered)
        /\ \A k \in 1..Len(log) :
               /\ log[k].at >= 0
               /\ log[k].packet = SubSeq(Stream, log[k].at + 1, log[k].at + PACKET_SIZE)
               /\ log[k].at + PACKET_SIZE <= NextTaken(k)
        /\ \A o \in 0..(delivered - 1) :
               Cardinality({k \in 1..Len(log) :
                               log[k].at <= o /\ o < log[k].at + PACKET_SIZE})
                   + (IF o >= BufferStart THEN 1 ELSE 0) <= 1

\* junk discarded before a frame, the frame consumed behind it and nothing
\* left in the buffer
C33_Witness ==
    /\ prog = "logger"
    /\ Len(segs) = 2
    /\ segs[1].kind = "junk"
    /\ Len(log) = 1
    /\ log[1].at = Len(segs[1].bytes)
    /\ ~InFrameTaken(0)
    /\ buffer = <<>>
    /\ delivered = Len(Stream)

-----------------------------------------------------------------------------
(* The logger's throttle timer when a write is skipped for lack of a fix   *)
(* (SpecThrottle: every frame arrives whole, log[k] is the frame segs[k])   *)

\* C40: a frame that passes the quality and interval tests without a GPS fix
\* attempts no insert and sets lastDbWriteTimestamp to its own time, so every
\* later insert attempt is at least DB_WRITE_INTERVAL_MS after it;
\* lastDbWriteTimestamp never decreases.
C40_TimerResetsWithoutWrite ==
    /\ [](/\ Len(dbInserts) =
                Cardinality({j \in 1..Len(log) : log[j].outcome = "insert"})
          /\ \A k, j \in 1..Len(log) :
                 (k < j /\ log[k].outcome = "nogps" /\ log[j].outcome = "insert") =>
                     segs[j].time - segs[k].time >= DB_WRITE_INTERVAL_MS)
    /\ [][/\ lastDbWriteTimestamp' >= lastDbWriteTimestamp
          /\ (Len(log') = Len(log) + 1 /\ log'[Len(log')].outcome = "nogps") =>
                 /\ dbInserts' = dbInserts
                 /\ lastDbWriteTimestamp' = now]_vars

\* a frame skipped for lack of a fix, a frame throttled half an interval
\* later although the fix had arrived, and an insert a whole interval after
\* the first frame
C40_Witness ==
    /\ Len(log) = 3
    /\ log[1].outcome = "nogps"
    /\ log[2].outcome = "throttled"
    /\ log[2].value >= QUALITY_MIN
    /\ log[3].outcome = "insert"
    /\ segs[3].time - segs[1].time = DB_WRITE_INTERVAL_MS
    /\ Len(dbInserts) = 1
    /\ lastDbWriteTimestamp = segs[3].time

-----------------------------------------------------------------------------
(* The compact record of the server handlers *)

\* C36: for every frame whose reflection value is at least 50, after any
\* earlier frames, round(smoothedDistance * 10) lies in 0..65535 and the
\* record holding it and min(value, 255) is sent.
C36_RecordAlwaysBuilt ==
    prog \in {"server", "handler"} =>
        \A i \in 1..Len(log) :
            log[i].value >= QUALITY_MIN =>
                /\ Uint16Range(MathRound(DecMul(log[i].after, DecInt(10))))
                /\ log[i].outcome = "sent"
                /\ log[i].payload[1] = MathRound(DecMul(log[i].after, DecInt(10)))
                /\ log[i].payload[2] = MinOf(log[i].value, 255)
                /\ log[i].payload[2] \in 0..255

-----------------------------------------------------------------------------
(* server-gps-d3-serial.js: the TPV handler of startGpsPipe beside the     *)
(* serial 'data' handler.  The handler is an async function: it runs up to  *)
(* await sonarPool.query(...), and the rest of it runs when the query       *)
(* settles, after whatever other handlers ran in between.  dbInserts holds  *)
(* one record per query issued: the row, the collected record it was taken  *)
(* from, and the batch emitted when it resolved.                            *)

\* the TPV messages with a fix handled in one run
MaxFixes == 2

\* the 'data' handler of the serial port with one whole frame as the chunk
ServerFrameArrives(values) ==
    /\ prog = "server"
    /\ Len(log) < MaxFrames
    /\ LET data == sendData(0, 0, 0, values)
           st == ServerLoop(View(data))
       IN  /\ segs' = Append(segs, [kind |-> "frame", bytes |-> data, time |-> now])
           /\ delivered' = delivered + Len(data)
           /\ buffer' = st.buffer
           /\ lastSmoothedDistance' = st.last
           /\ collectedSonarData' = st.collected
           /\ log' = st.log
    /\ UNCHANGED <<prog, given, wire, consoleVars, loggerVars, clients,
                   currentGpsData, now>>

\* the batch holding the newest record only
BatchToEmitLatestOnly(collected) ==
    IF collected = <<>> THEN <<>>
    ELSE <<[time |-> collected[Len(collected)].timestamp,
            depth_cm |-> collected[Len(collected)].smoothedDistance,
            lat |-> collected[Len(collected)].gps.lat,
            lon |-> collected[Len(collected)].gps.lon,
            entry |-> collected[Len(collected)].entry]>>

\* collectedSonarData.map(data => ({time, depth_cm, lat, lon}))
BatchToEmit(collected) ==
    [i \in 1..Len(collected) |->
        [time |-> collected[i].timestamp,
         depth_cm |-> collected[i].smoothedDistance,
         lat |-> collected[i].gps.lat,
         lon |-> collected[i].gps.lon,
         entry |-> collected[i].entry]]

\* gpsd.stdout.on("data") with one TPV line, mode >= 2, holding lat and lon:
\* the handler up to its await
TpvMessage(position) ==
    /\ prog = "server"
    /\ Len(dbInserts) < MaxFixes
    /\ currentGpsData' = [lat |-> position[1], lon |-> position[2], initialized |-> TRUE]
    /\ dbInserts' =
           IF Len(collectedSonarData) > 0
           THEN LET latestData == collectedSonarData[Len(collectedSonarData)]
                IN  Append(dbInserts,
                           [timestamp |-> latestData.timestamp,
                            lat |-> position[1], lon |-> position[2],
                            value |-> latestData.reflection.value,
                            index |-> latestData.reflection.index,
                            distance |-> latestData.smoothedDistance,
                            record |-> latestData.entry,
                            frames |-> Len(log),
                            state |-> "pending", batch |-> <<>>])
           ELSE dbInserts
    /\ UNCHANGED <<prog, given, wireVars, sonarVars, consoleVars,
                   lastDbWriteTimestamp, clients, now>>

\* the query resolves: the batch is emitted and the collection cleared
SyncCompletes(k) ==
    /\ prog = "server"
    /\ k \in 1..Len(dbInserts)
    /\ dbInserts[k].state = "pending"
    /\ dbInserts' = [dbInserts EXCEPT ![k].state = "done",
                                      ![k].batch = BatchToEmit(collectedSonarData)]
    /\ collectedSonarData' = <<>>
    /\ UNCHANGED <<prog, given, wireVars, buffer, lastSmoothedDistance, log,
                   consoleVars, lastDbWriteTimestamp, clients, currentGpsData, now>>

\* the query rejects: the catch of the line's try block, nothing emitted
SyncFails(k) ==
    /\ prog = "server"
    /\ k \in 1..Len(dbInserts)
    /\ dbInserts[k].state = "pending"
    /\ dbInserts' = [dbInserts EXCEPT ![k].state = "failed"]
    /\ UNCHANGED <<prog, given, wireVars, sonarVars, consoleVars,
                   lastDbWriteTimestamp, clients, currentGpsData, now>>

InitSync ==
    /\ prog = "server"
    /\ InitCommon

NextSync ==
    \/ \E values \in SampleArrays : ServerFrameArrives(values)
    \/ \E position \in Positions : TpvMessage(position)
    \/ \E k \in 1..MaxFixes : SyncCompletes(k)
    \/ \E k \in 1..MaxFixes : SyncFails(k)

SpecSync == InitSync /\ [][NextSync]_vars

\* C34: each collected sonar record is inserted into sonar_readings at most
\* once: no two inserts that resolved carry the same record.
C34_RecordInsertedAtMostOnce ==
    \A a, b \in 1..Len(dbInserts) :
        (a < b /\ dbInserts[a].state = "done" /\ dbInserts[b].state = "done") =>
            dbInserts[a].record # dbInserts[b].record

\* how often the record of log entry e occurs in a sequence of records
Occurrences(records, e) == Cardinality({i \in 1..Len(records) : records[i].entry = e})

\* how often the record of log entry e has been emitted, over all batches
RECURSIVE Emitted(_, _)
Emitted(k, e) ==
    IF k = 0 THEN 0
    ELSE Emitted(k - 1, e) + Occurrences(dbInserts[k].batch, e)

\* C35: every record appended to collectedSonarData, also while an insert is
\* pending, is either still in the collection or in exactly one emitted
\* batch, never both and never neither; a failed insert emits nothing and
\* leaves the collection as it was.
C35_BatchLosesAndDuplicatesNothing ==
    /\ [](/\ \A e \in 1..Len(log) :
                 Occurrences(collectedSonarData, e) + Emitted(Len(dbInserts), e)
                     = (IF log[e].outcome = "sent" THEN 1 ELSE 0)
          /\ \A k \in 1..Len(dbInserts) :
                 dbInserts[k].state # "done" => dbInserts[k].batch = <<>>)
    /\ [][(\E k \in 1..Len(dbInserts) :
               dbInserts[k].state = "pending" /\ dbInserts'[k].state = "failed")
              => collectedSonarData' = collectedSonarData]_vars

\* an insert resolved after another record had been appended while it was
\* pending: the batch holds both records and the collection is empty
C35_Witness ==
    /\ Len(dbInserts) >= 1
    /\ dbInserts[1].state = "done"
    /\ Len(dbInserts[1].batch) = 2
    /\ dbInserts[1].batch[1].entry <= dbInserts[1].frames
    /\ dbInserts[1].batch[2].entry > dbInserts[1].frames
    /\ collectedSonarData = <<>>

-----------------------------------------------------------------------------
(* The firmware's depth latch: loop() of TUSS4470_R3_with_TEMP_OUT.ino and  *)
(* of part_001 against handleInterrupt, the handler of the RISING edge on   *)
(* O4.  sampleIndex, detectedDepth and depthDetectSample are volatile and   *)
(* shared with no guard; both are ints, two bytes on the AVR, written and   *)
(* read a byte at a time with interrupts enabled.  The handler itself runs  *)
(* with interrupts disabled.  given holds the state of the firmware:        *)
(*   pc                where loop() stands                                  *)
(*   i                 the value of sampleIndex loop() works with           *)
(*   sampleIndex       the two bytes in memory, as the handler reads them   *)
(*   detectedDepth, depthDetectSample, depthHigh    as in the source        *)
(*   cycle             the call of loop() under way                         *)
(*   latchedIn         the cycle in which depthDetectSample was written     *)
(*   crossed           the sample indices at which the first threshold      *)
(*                     crossing behind the blind zone of this cycle came    *)
(* log holds the depth index of the frame each cycle has sent.              *)

BLINDZONE_SAMPLE_END == 450

\* calls of loop() in one run
MaxCycles == 2

\* #define NUM_SAMPLES of the two firmwares
FirmwareSamples(firmware) == IF firmware = "part_001" THEN 900 ELSE 1800

\* the sample indices at which the echo may cross the threshold: in the
\* ring-down, at the end of the blind zone, where the increment carries into
\* the high byte, and further on
CrossingSamples == {100, BLINDZONE_SAMPLE_END, 511, 600}

\* what memory holds between the two byte stores of a 16-bit write, for
\* either order of the stores
Torn(old, new) ==
    {(new \div 256) * 256 + (old % 256), (old \div 256) * 256 + (new % 256)}

\* the next sample at which a crossing may come, or the end of the sweep
NextCrossing(i, n) ==
    LET ahead == {c \in CrossingSamples \cup {n} : c > i /\ c <= n}
    IN  CHOOSE c \in ahead : \A d \in ahead : c <= d

\* for (sampleIndex = 0; ...): the first byte of the store
StartCycle ==
    /\ prog = "firmware"
    /\ given.pc = "start"
    /\ \E t \in Torn(given.sampleIndex, 0) :
           given' = [given EXCEPT !.sampleIndex = t, !.i = 0, !.pc = "start2"]
    /\ UNCHANGED <<prog, wireVars, sonarVars, consoleVars, loggerVars, clients,
                   currentGpsData, now>>

\* the second byte of the store
StartCycleDone ==
    /\ prog = "firmware"
    /\ given.pc = "start2"
    /\ given' = [given EXCEPT !.sampleIndex = 0, !.pc = "sample"]
    /\ UNCHANGED <<prog, wireVars, sonarVars, consoleVars, loggerVars, clients,
                   currentGpsData, now>>

\* the iterations of the sampling loop up to the next sample at which a
\* crossing may come: no interrupt falls into them
SampleQuiet ==
    /\ prog = "firmware"
    /\ given.pc = "sample"
    /\ given.i \notin CrossingSamples
    /\ LET n == FirmwareSamples(given.firmware)
           j == NextCrossing(given.i, n)
       IN  given' = [given EXCEPT
                        !.sampleIndex = j,
                        !.i = j,
                        !.detectedDepth =
                            IF given.i <= BLINDZONE_SAMPLE_END /\ BLINDZONE_SAMPLE_END < j
                            THEN FALSE ELSE @,
                        !.pc = IF j < n THEN "sample" ELSE "send"]
    /\ UNCHANGED <<prog, wireVars, sonarVars, consoleVars, loggerVars, clients,
                   currentGpsData, now>>

\* the body of one iteration: the sample is stored and, at
\* BLINDZONE_SAMPLE_END, detectedDepth = false
Sample ==
    /\ prog = "firmware"
    /\ given.pc = "sample"
    /\ given.i \in CrossingSamples
    /\ given' = [given EXCEPT
                    !.detectedDepth = IF given.i = BLINDZONE_SAMPLE_END THEN FALSE ELSE @,
                    !.pc = "inc"]
    /\ UNCHANGED <<prog, wireVars, sonarVars, consoleVars, loggerVars, clients,
                   currentGpsData, now>>

\* sampleIndex++: the first byte of the store
Increment ==
    /\ prog = "firmware"
    /\ given.pc = "inc"
    /\ \E t \in Torn(given.i, given.i + 1) :
           given' = [given EXCEPT !.sampleIndex = t, !.pc = "inc2"]
    /\ UNCHANGED <<prog, wireVars, sonarVars, consoleVars, loggerVars, clients,
                   currentGpsData, now>>

\* the second byte of the store, and sampleIndex < NUM_SAMPLES
IncrementDone ==
    /\ prog = "firmware"
    /\ given.pc = "inc2"
    /\ given' = [given EXCEPT
                    !.sampleIndex = given.i + 1,
                    !.i = given.i + 1,
                    !.pc = IF given.i + 1 < FirmwareSamples(given.firmware)
                           THEN "sample" ELSE "send"]
    /\ UNCHANGED <<prog, wireVars, sonarVars, consoleVars, loggerVars, clients,
                   currentGpsData, now>>

\* sendData: uint8_t depthHigh = depthDetectSample >> 8
SendDepthHigh ==
    /\ prog = "firmware"
    /\ given.pc = "send"
    /\ given' = [given EXCEPT !.depthHigh = (given.depthDetectSample \div 256) % 256,
                              !.pc = "send2"]
    /\ UNCHANGED <<prog, wireVars, sonarVars, consoleVars, loggerVars, clients,
                   currentGpsData, now>>

\* sendData: uint8_t depthLow = depthDetectSample & 0xFF, and the frame
SendDepthLow ==
    /\ prog = "firmware"
    /\ given.pc = "send2"
    /\ log' = Append(log, [cycle |-> given.cycle,
                           depth |-> given.depthHigh * 256 + (given.depthDetectSample % 256),
                           crossed |-> given.crossed,
                           latchedIn |-> given.latchedIn])
    /\ given' = [given EXCEPT !.pc = "delay"]
    /\ UNCHANGED <<prog, wireVars, buffer, lastSmoothedDistance, collectedSonarData,
                   consoleVars, loggerVars, clients, currentGpsData, now>>

\* delay(10) and the return of loop()
Delay ==
    /\ prog = "firmware"
    /\ given.pc = "delay"
    /\ given.cycle < MaxCycles
    /\ given' = [given EXCEPT !.cycle = @ + 1, !.crossed = {}, !.pc = "start"]
    /\ UNCHANGED <<prog, wireVars, sonarVars, consoleVars, loggerVars, clients,
                   currentGpsData, now>>

\* handleInterrupt, at any point of loop() where a crossing may come
handleInterrupt ==
    /\ prog = "firmware"
    /\ given.pc \in {"sample", "inc", "inc2"} => given.i \in CrossingSamples
    /\ LET behind == \/ given.pc = "sample" /\ given.i > BLINDZONE_SAMPLE_END
                     \/ given.pc \in {"inc", "inc2"} /\ given.i >= BLINDZONE_SAMPLE_END
           at == IF given.pc = "inc2" THEN {given.i, given.i + 1} ELSE {given.i}
           seen == IF behind /\ given.crossed = {} THEN at ELSE given.crossed
       IN  given' = IF ~given.detectedDepth
                    THEN [given EXCEPT !.depthDetectSample = given.sampleIndex,
                                       !.detectedDepth = TRUE,
                                       !.latchedIn = given.cycle,
                                       !.crossed = seen]
                    ELSE [given EXCEPT !.crossed = seen]
    /\ UNCHANGED <<prog, wireVars, sonarVars, consoleVars, loggerVars, clients,
                   currentGpsData, now>>

InitLatch ==
    /\ prog = "firmware"
    /\ \E firmware \in {"TUSS4470_R3_with_TEMP_OUT", "part_001"} :
           given = [firmware |-> firmware, pc |-> "start", i |-> 0, sampleIndex |-> 0,
                    detectedDepth |-> FALSE, depthDetectSample |-> 0, depthHigh |-> 0,
                    cycle |-> 1, latchedIn |-> 0, crossed |-> {}]
    /\ segs = <<>>
    /\ wire = <<>>
    /\ delivered = 0
    /\ buffer = <<>>
    /\ isReading = FALSE
    /\ tracker = [buffer |-> <<>>, consistentIndices |-> {}]
    /\ lastSmoothedDistance = null
    /\ clients = [c \in Clients |-> WS_OPEN]
    /\ collectedSonarData = <<>>
    /\ currentGpsData = [lat |-> null, lon |-> null, initialized |-> FALSE]
    /\ now = StartTime
    /\ lastDbWriteTimestamp = 0
    /\ dbInserts = <<>>
    /\ log = <<>>

NextLatch ==
    \/ StartCycle
    \/ StartCycleDone
    \/ SampleQuiet
    \/ Sample
    \/ Increment
    \/ IncrementDone
    \/ SendDepthHigh
    \/ SendDepthLow
    \/ Delay
    \/ handleInterrupt

SpecLatch == InitLatch /\ [][NextLatch]_vars

\* C39: under every interleaving of handleInterrupt with loop(), the depth
\* index sent in a frame is the sample index of the first threshold crossing
\* that came behind sample BLINDZONE_SAMPLE_END of the same cycle, it is not
\* an index inside the blind zone, and it was latched in the cycle that
\* sends it.
C39_DepthIsFirstCrossingOfItsCycle ==
    \A k \in 1..Len(log) :
        /\ log[k].crossed # {} => log[k].depth \in log[k].crossed
        /\ log[k].depth >= BLINDZONE_SAMPLE_END
        /\ log[k].latchedIn = log[k].cycle

=============================================================================
